---- MODULE Spec2Model ----
(***************************************************************************)
(* FairFindz content script (src/content/content.js, revision starting at  *)
(* line 1137): the navigation-aware recommendation state machine, the      *)
(* memoized catalog load, and the relevance matcher.                       *)
(*                                                                         *)
(* Texts and URLs are TLA+ strings; containment checks are real substring  *)
(* searches, as String.prototype.includes is.                              *)
(***************************************************************************)
EXTENDS Integers, Sequences, FiniteSets, TLC

\* null for strings; None / Some(v) for nullable objects and arrays
Null == "<null>"
None == [some |-> FALSE]
Some(v) == [some |-> TRUE, val |-> v]

(***************************************************************************)
(* String helpers (JavaScript String.prototype semantics).                 *)
(***************************************************************************)
CharAt(s, i) == SubSeq(s, i, i)

\* s.includes(n)
Includes(s, n) ==
  \E i \in 1..(Len(s) - Len(n) + 1) : SubSeq(s, i, i + Len(n) - 1) = n

\* s.startsWith(p)
StartsWith(s, p) == Len(p) <= Len(s) /\ SubSeq(s, 1, Len(p)) = p

EndsWith(s, p) == Len(p) <= Len(s) /\ SubSeq(s, Len(s) - Len(p) + 1, Len(s)) = p

\* s.indexOf(n), 0 when absent (1-based positions)
IndexOf(s, n) ==
  IF Includes(s, n)
  THEN CHOOSE i \in 1..(Len(s) - Len(n) + 1) :
         /\ SubSeq(s, i, i + Len(n) - 1) = n
         /\ \A j \in 1..(i - 1) : SubSeq(s, j, j + Len(n) - 1) # n
  ELSE 0

\* String.prototype.toLowerCase / toUpperCase, per character (ASCII)
LowerMap ==
  "A" :> "a" @@ "B" :> "b" @@ "C" :> "c" @@ "D" :> "d" @@ "E" :> "e" @@ "F" :> "f" @@
  "G" :> "g" @@ "H" :> "h" @@ "I" :> "i" @@ "J" :> "j" @@ "K" :> "k" @@ "L" :> "l" @@
  "M" :> "m" @@ "N" :> "n" @@ "O" :> "o" @@ "P" :> "p" @@ "Q" :> "q" @@ "R" :> "r" @@
  "S" :> "s" @@ "T" :> "t" @@ "U" :> "u" @@ "V" :> "v" @@ "W" :> "w" @@ "X" :> "x" @@
  "Y" :> "y" @@ "Z" :> "z"

UpperMap ==
  "a" :> "A" @@ "b" :> "B" @@ "c" :> "C" @@ "d" :> "D" @@ "e" :> "E" @@ "f" :> "F" @@
  "g" :> "G" @@ "h" :> "H" @@ "i" :> "I" @@ "j" :> "J" @@ "k" :> "K" @@ "l" :> "L" @@
  "m" :> "M" @@ "n" :> "N" @@ "o" :> "O" @@ "p" :> "P" @@ "q" :> "Q" @@ "r" :> "R" @@
  "s" :> "S" @@ "t" :> "T" @@ "u" :> "U" @@ "v" :> "V" @@ "w" :> "W" @@ "x" :> "X" @@
  "y" :> "Y" @@ "z" :> "Z"

UpperLetters == DOMAIN LowerMap

LowerLetters == DOMAIN UpperMap

LowerChar(c) == IF c \in UpperLetters THEN LowerMap[c] ELSE c

UpperChar(c) == IF c \in LowerLetters THEN UpperMap[c] ELSE c

\* the recursions over strings split the string in halves
RECURSIVE ToLowerCase(_)
ToLowerCase(s) ==
  IF Len(s) <= 1 THEN LowerChar(s)
  ELSE ToLowerCase(SubSeq(s, 1, Len(s) \div 2)) \o ToLowerCase(SubSeq(s, Len(s) \div 2 + 1, Len(s)))

RECURSIVE ToUpperCase(_)
ToUpperCase(s) ==
  IF Len(s) <= 1 THEN UpperChar(s)
  ELSE ToUpperCase(SubSeq(s, 1, Len(s) \div 2)) \o ToUpperCase(SubSeq(s, Len(s) \div 2 + 1, Len(s)))

IsSpace(c) == c = " " \/ c = "\n" \/ c = "\t"

\* .replace(/\s+/g, " ") on positions lo..hi of s: a whitespace run becomes one space
RECURSIVE CollapseRange(_, _, _)
CollapseRange(s, lo, hi) ==
  IF lo > hi THEN ""
  ELSE IF lo = hi
       THEN IF IsSpace(CharAt(s, lo))
            THEN (IF lo > 1 /\ IsSpace(CharAt(s, lo - 1)) THEN "" ELSE " ")
            ELSE CharAt(s, lo)
       ELSE CollapseRange(s, lo, (lo + hi) \div 2) \o CollapseRange(s, (lo + hi) \div 2 + 1, hi)

CollapseSpaces(s) == CollapseRange(s, 1, Len(s))

\* .trim()
Trim(s) ==
  IF \A i \in 1..Len(s) : IsSpace(CharAt(s, i)) THEN ""
  ELSE SubSeq(s, CHOOSE i \in 1..Len(s) :
                   ~IsSpace(CharAt(s, i)) /\ \A j \in 1..(i - 1) : IsSpace(CharAt(s, j)),
                 CHOOSE i \in 1..Len(s) :
                   ~IsSpace(CharAt(s, i)) /\ \A j \in (i + 1)..Len(s) : IsSpace(CharAt(s, j)))

\* normalizeText: lower-case, collapse whitespace, trim.  The apostrophe
\* replacement maps U+2019 and ' to '; the modelled texts hold ASCII only.
normalizeText(s) == Trim(CollapseSpaces(ToLowerCase(s)))

DigitChars == {"0", "1", "2", "3", "4", "5", "6", "7", "8", "9"}

\* [A-Za-z0-9]
IsAlnum(c) == c \in UpperLetters \/ c \in LowerLetters \/ c \in DigitChars

(***************************************************************************)
(* URL helpers.                                                            *)
(***************************************************************************)
\* positions i of s where prefix, then 10 alphanumerics, then "/", "?" or
\* the end of the string: /<prefix>([A-Z0-9]{10})(?:[/?]|$)/i
AsinMatchAt(s, prefix, i, enders) ==
  LET n == Len(prefix) IN
  /\ i + n + 9 <= Len(s)
  /\ ToLowerCase(SubSeq(s, i, i + n - 1)) = prefix
  /\ \A k \in (i + n)..(i + n + 9) : IsAlnum(CharAt(s, k))
  /\ \/ i + n + 10 > Len(s)
     \/ Includes(enders, CharAt(s, i + n + 10))

HasAsinMatch(s, prefix, enders) == \E i \in 1..Len(s) : AsinMatchAt(s, prefix, i, enders)

FirstAsin(s, prefix, enders) ==
  LET i == CHOOSE k \in 1..Len(s) :
             /\ AsinMatchAt(s, prefix, k, enders)
             /\ \A j \in 1..(k - 1) : ~AsinMatchAt(s, prefix, j, enders)
  IN ToUpperCase(SubSeq(s, i + Len(prefix), i + Len(prefix) + 9))

extractAmazonAsinFromUrl(url) ==
  IF url = Null \/ url = "" THEN Null
  ELSE IF HasAsinMatch(url, "/dp/", "/?") THEN FirstAsin(url, "/dp/", "/?")
  ELSE IF HasAsinMatch(url, "/gp/product/", "/?") THEN FirstAsin(url, "/gp/product/", "/?")
  ELSE IF HasAsinMatch(url, "?asin=", "&") THEN FirstAsin(url, "?asin=", "&")
  ELSE IF HasAsinMatch(url, "&asin=", "&") THEN FirstAsin(url, "&asin=", "&")
  ELSE Null

\* new URL(u): scheme, hostname and pathname of an absolute http(s) URL
UrlParses(u) == StartsWith(u, "https://") \/ StartsWith(u, "http://")

UrlRest(u) ==
  IF StartsWith(u, "https://") THEN SubSeq(u, 9, Len(u)) ELSE SubSeq(u, 8, Len(u))

\* first position of a character of stops in s, Len(s)+1 when there is none
FirstStop(s, stops) ==
  IF \E i \in 1..Len(s) : Includes(stops, CharAt(s, i))
  THEN CHOOSE i \in 1..Len(s) :
         /\ Includes(stops, CharAt(s, i))
         /\ \A j \in 1..(i - 1) : ~Includes(stops, CharAt(s, j))
  ELSE Len(s) + 1

UrlHostname(u) == ToLowerCase(SubSeq(UrlRest(u), 1, FirstStop(UrlRest(u), "/?#") - 1))

UrlPathname(u) ==
  LET r == UrlRest(u)
      afterHost == SubSeq(r, FirstStop(r, "/?#"), Len(r))
      p == SubSeq(afterHost, 1, FirstStop(afterHost, "?#") - 1)
  IN IF p = "" THEN "/" ELSE p

ExcludedPrefixes == {"/s", "/gp/cart", "/cart", "/gp/buy", "/checkout"}

isProductPage(u) ==
  IF ~UrlParses(u) THEN FALSE
  ELSE IF ~(UrlHostname(u) = "amazon.com" \/ EndsWith(UrlHostname(u), ".amazon.com")) THEN FALSE
  ELSE LET path == UrlPathname(u) IN
       IF path = "/" THEN FALSE
       ELSE IF \E p \in ExcludedPrefixes : StartsWith(path, p) THEN FALSE
       ELSE \/ HasAsinMatch(path, "/dp/", "/?")
            \/ HasAsinMatch(path, "/gp/product/", "/?")
            \/ HasAsinMatch(path, "/gp/aw/d/", "/?")


(***************************************************************************)
(* Sequence helpers.                                                       *)
(***************************************************************************)
Range(seq) == {seq[i] : i \in DOMAIN seq}

RECURSIVE JoinWithSpace(_)
\* Array.prototype.join(" ")
JoinWithSpace(seq) ==
  IF seq = <<>> THEN ""
  ELSE IF Len(seq) = 1 THEN seq[1]
  ELSE seq[1] \o " " \o JoinWithSpace(Tail(seq))

\* Array.from(new Set(seq)): first occurrences, in order
RECURSIVE Dedupe(_)
Dedupe(seq) ==
  IF seq = <<>> THEN <<>>
  ELSE LET init == Dedupe(SubSeq(seq, 1, Len(seq) - 1))
           x == seq[Len(seq)]
       IN IF x \in Range(init) THEN init ELSE Append(init, x)

\* raw.split(/[^a-z0-9]+/i).map(trim).filter(Boolean): the maximal alphanumeric
\* runs of s, in order; a run starts at i and TokenAt gives its text
TokenStarts(s) ==
  {i \in 1..Len(s) : IsAlnum(CharAt(s, i)) /\ (i = 1 \/ ~IsAlnum(CharAt(s, i - 1)))}

TokenAt(s, i) ==
  SubSeq(s, i, CHOOSE e \in i..Len(s) :
                 /\ \A k \in i..e : IsAlnum(CharAt(s, k))
                 /\ (e = Len(s) \/ ~IsAlnum(CharAt(s, e + 1))))

RECURSIVE TokensFrom(_, _)
TokensFrom(s, starts) ==
  IF starts = {} THEN <<>>
  ELSE LET i == CHOOSE k \in starts : \A j \in starts : k <= j
       IN <<TokenAt(s, i)>> \o TokensFrom(s, starts \ {i})

SplitAlnum(s) == TokensFrom(s, TokenStarts(s))

(***************************************************************************)
(* Domain classifier.                                                      *)
(***************************************************************************)
DomainWords ==
  [ supplements |-> {"collagen", "peptides", "supplement", "supplements", "vitamin",
                     "vitamins", "multivitamin", "protein powder"},
    coffee      |-> {"coffee", "espresso", "beans", "roast", "k-cup", "keurig"},
    grocery     |-> {"olive oil", "extra virgin", "evoo", "cold pressed", "cold-pressed",
                     "avocado oil", "cooking oil", "sunflower oil", "grapeseed oil", "sesame oil"},
    oralcare    |-> {"toothpaste", "tooth paste", "mouthwash", "oral care", "toothbrush",
                     "teeth", "gum", "gingivitis"},
    household   |-> {"laundry", "detergent", "dish soap", "cleaner", "cleaning", "soap"},
    skincare    |-> {"skincare", "moisturizer", "serum", "cleanser", "sunscreen", "lotion",
                     "brightening"},
    travel      |-> {"luggage", "suitcase", "travel", "wheels", "accessories", "accessory"},
    appliances  |-> {"vacuum", "vacuuming", "robot vacuum", "robotic vacuum", "mop", "mopping",
                     "suction", "dustbin", "self-emptying"},
    candle      |-> {"candle", "candles", "wax", "scented", "aroma", "fragrance", "pillar",
                     "votive", "tin", "jar candle"} ]

DomainNames == DOMAIN DomainWords

detectDomainsFromText(text) ==
  LET t == normalizeText(text)
  IN {d \in DomainNames : \E w \in DomainWords[d] : Includes(t, w)}

getProductDomains(product) ==
  detectDomainsFromText(product.name \o " " \o product.brand \o " "
                        \o JoinWithSpace(product.amazonCategories) \o " " \o product.category)

(***************************************************************************)
(* Page facts.  A DOM is the record of the four text blocks the content     *)
(* script reads: [title, breadcrumbs, features, description].              *)
(***************************************************************************)
CategoryCoffeeWords == {"coffee", "espresso", "k-cup", "keurig", "beans"}
CategoryCandleWords == {"candle", "candles", "scented", "soy candle", "soy", "fragrance"}

getProductCategory(dom) ==
  LET haystack == ToLowerCase(dom.title \o "\n" \o dom.breadcrumbs)
      titleLower == ToLowerCase(dom.title)
      coffeeScore == Cardinality({kw \in CategoryCoffeeWords : Includes(haystack, kw)})
      candleScore == Cardinality({kw \in CategoryCandleWords : Includes(haystack, kw)})
      coffeeInTitle == \E kw \in CategoryCoffeeWords : Includes(titleLower, kw)
      candlesInTitle == \E kw \in CategoryCandleWords : Includes(titleLower, kw)
  IN IF coffeeScore = 0 /\ candleScore = 0 THEN "unknown"
     ELSE IF coffeeScore > candleScore THEN "coffee"
     ELSE IF candleScore > coffeeScore THEN "candles"
     ELSE IF coffeeInTitle /\ ~candlesInTitle THEN "coffee"
     ELSE IF candlesInTitle /\ ~coffeeInTitle THEN "candles"
     ELSE "unknown"

extractAmazonProduct(dom) ==
  [ category     |-> getProductCategory(dom),
    title        |-> Trim(dom.title),
    breadcrumbs  |-> Trim(dom.breadcrumbs),
    features     |-> Trim(dom.features),
    description  |-> Trim(dom.description),
    combinedText |-> normalizeText(dom.title \o "\n" \o dom.features \o "\n" \o dom.description) ]

(***************************************************************************)
(* Relevance scorer.  A product is a record                                *)
(*   [id, name, brand, category, amazonKeywords, amazonCategories,         *)
(*    rating, reviewCount, availability, productUrl, imageUrl]             *)
(* with rating in tenths of a star (45 is 4.5).                            *)
(***************************************************************************)
Stopwords ==
  {"with", "from", "that", "this", "your", "their", "amazon", "com", "pack", "count", "size",
   "ounce", "ounces", "pound", "pounds", "grams", "fresh", "medium", "large", "small", "black",
   "owned"}

\* tokens of name + brand of at least 5 characters that are not stopwords
fallbackKeywords(product) ==
  SelectSeq(SplitAlnum(product.name \o " " \o product.brand),
            LAMBDA t : Len(t) >= 5 /\ ToLowerCase(t) \notin Stopwords)

effectiveKeywords(product) ==
  IF Len(product.amazonKeywords) > 0 THEN product.amazonKeywords
  ELSE Dedupe(fallbackKeywords(product))

RECURSIVE matchedKeywordsIn(_, _)
\* the keywords (raw) whose normalized text is non-empty and occurs in haystack
matchedKeywordsIn(kws, haystack) ==
  IF kws = <<>> THEN <<>>
  ELSE LET kw == normalizeText(Head(kws))
           rest == matchedKeywordsIn(Tail(kws), haystack)
       IN IF kw # "" /\ Includes(haystack, kw) THEN <<Head(kws)>> \o rest ELSE rest

genericKeywordSet == {"coffee", "candle", "candles"}

\* variant: the generic words are not filtered out of the count
nonGenericCount_Unfiltered(matched) == Len(matched)

nonGenericCount(matched) ==
  Cardinality({i \in DOMAIN matched : normalizeText(matched[i]) \notin genericKeywordSet})

\* brandText && haystack.includes(brandText)
brandMatchesIn(product, haystack) ==
  LET brandText == normalizeText(product.brand)
  IN brandText # "" /\ Includes(haystack, brandText)

SingleKeywordDomains == {"oralcare", "skincare", "household", "coffee", "supplements"}

allowSingleKeywordByDomain(amazonInfo) ==
  /\ "pageDomains" \in DOMAIN amazonInfo
  /\ amazonInfo.pageDomains \cap SingleKeywordDomains # {}

\* variant: one matched keyword is always enough
minKeywordMatches_AlwaysOne(product, amazonInfo) == 1

minKeywordMatches(product, amazonInfo) ==
  IF brandMatchesIn(product, amazonInfo.combinedText) \/ allowSingleKeywordByDomain(amazonInfo)
  THEN 1 ELSE 2

wantsCollagen(text) == Includes(text, "collagen") \/ Includes(text, "peptides")

pageWantsCollagen(amazonInfo) ==
  wantsCollagen(normalizeText(amazonInfo.title \o " " \o amazonInfo.breadcrumbs \o " "
                              \o amazonInfo.features \o " " \o amazonInfo.description))

productIsCollagen(product) ==
  wantsCollagen(normalizeText(product.name \o " " \o product.category \o " "
                              \o JoinWithSpace(product.amazonCategories)))

ratingBonus(rating) ==
  IF rating >= 50 THEN 10
  ELSE IF rating >= 45 THEN 7
  ELSE IF rating >= 42 THEN 4
  ELSE IF rating >= 40 THEN 2
  ELSE 0

reviewBonus(reviewCount) ==
  IF reviewCount >= 5000 THEN 10
  ELSE IF reviewCount >= 1000 THEN 7
  ELSE IF reviewCount >= 300 THEN 4
  ELSE IF reviewCount >= 100 THEN 2
  ELSE 0

\* variant: no intent rule (no +80, no exclusion on a collagen page)
scoreMatched_NoIntentRule(product, amazonInfo, matched, brandMatches, pageCollagen, productCollagen) ==
  IF Len(matched) < minKeywordMatches(product, amazonInfo) \/ nonGenericCount(matched) < 1
  THEN [score |-> 0, keywordMatches |-> Len(matched), matchedKeywords |-> matched]
  ELSE [ score |-> (IF amazonInfo.category # "unknown" /\ product.category = amazonInfo.category
                    THEN 60 ELSE 20)
                   + Len(matched) * 12 + (IF brandMatches THEN 20 ELSE 0)
                   + ratingBonus(product.rating) + reviewBonus(product.reviewCount),
         keywordMatches |-> Len(matched), matchedKeywords |-> matched ]

\* variant: 10 points per matched keyword
scoreMatched_TenPerKeyword(product, amazonInfo, matched, brandMatches, pageCollagen, productCollagen) ==
  IF Len(matched) < minKeywordMatches(product, amazonInfo) \/ nonGenericCount(matched) < 1
  THEN [score |-> 0, keywordMatches |-> Len(matched), matchedKeywords |-> matched]
  ELSE IF pageCollagen /\ ~productCollagen /\ ~brandMatches
  THEN [score |-> 0, keywordMatches |-> Len(matched), matchedKeywords |-> matched]
  ELSE [ score |-> (IF pageCollagen /\ productCollagen THEN 80 ELSE 0)
                   + (IF amazonInfo.category # "unknown" /\ product.category = amazonInfo.category
                      THEN 60 ELSE 20)
                   + Len(matched) * 10 + (IF brandMatches THEN 20 ELSE 0)
                   + ratingBonus(product.rating) + reviewBonus(product.reviewCount),
         keywordMatches |-> Len(matched), matchedKeywords |-> matched ]

\* scoreProduct from the point where matched, brandMatches and the collagen intent
\* of the page and of the product are known
scoreMatched(product, amazonInfo, matched, brandMatches, pageCollagen, productCollagen) ==
  IF Len(matched) < minKeywordMatches(product, amazonInfo) \/ nonGenericCount(matched) < 1
  THEN [score |-> 0, keywordMatches |-> Len(matched), matchedKeywords |-> matched]
  ELSE IF pageCollagen /\ ~productCollagen /\ ~brandMatches
  THEN [score |-> 0, keywordMatches |-> Len(matched), matchedKeywords |-> matched]
  ELSE [ score |-> (IF pageCollagen /\ productCollagen THEN 80 ELSE 0)
                   + (IF amazonInfo.category # "unknown" /\ product.category = amazonInfo.category
                      THEN 60 ELSE 20)
                   + Len(matched) * 12
                   + (IF brandMatches THEN 20 ELSE 0)
                   + ratingBonus(product.rating) + reviewBonus(product.reviewCount),
         keywordMatches |-> Len(matched),
         matchedKeywords |-> matched ]

scoreProduct(product, amazonInfo) ==
  scoreMatched(product, amazonInfo,
               matchedKeywordsIn(effectiveKeywords(product), amazonInfo.combinedText),
               brandMatchesIn(product, amazonInfo.combinedText),
               pageWantsCollagen(amazonInfo),
               productIsCollagen(product))

(***************************************************************************)
(* Catalog matcher.                                                        *)
(***************************************************************************)
\* { ...amazonInfo, pageDomains }
WithPageDomains(amazonInfo, pageDomains) ==
  [f \in (DOMAIN amazonInfo) \cup {"pageDomains"} |->
     IF f = "pageDomains" THEN pageDomains ELSE amazonInfo[f]]

pageDomainsOf(amazonInfo) ==
  detectDomainsFromText(amazonInfo.title \o " " \o amazonInfo.breadcrumbs)

inStockOf(products) ==
  SelectSeq(products, LAMBDA p : p.availability # "out_of_stock")

\* the filter callback of categoryPool
inCategoryPool(p, pageDomains, currentBrandText) ==
  \/ pageDomains \cap getProductDomains(p) # {}
  \/ /\ "supplements" \in pageDomains
     /\ "supplements" \in getProductDomains(p)
     /\ normalizeText(p.brand) # ""
     /\ Includes(currentBrandText, normalizeText(p.brand))

\* the sort comparator: negative when a sorts before b
compareScored(a, b) ==
  IF b.score # a.score THEN b.score - a.score
  ELSE IF b.keywordMatches # a.keywordMatches THEN b.keywordMatches - a.keywordMatches
  ELSE IF b.product.rating # a.product.rating THEN b.product.rating - a.product.rating
  ELSE b.product.reviewCount - a.product.reviewCount

RECURSIVE insertScored(_, _)
insertScored(sorted, x) ==
  IF sorted = <<>> THEN <<x>>
  ELSE IF compareScored(Head(sorted), x) <= 0
       THEN <<Head(sorted)>> \o insertScored(Tail(sorted), x)
       ELSE <<x>> \o sorted

\* variant: the scored entries stay in catalog order
sortScored_Unsorted(seq) == seq

\* Array.prototype.sort (stable) with compareScored
RECURSIVE sortScored(_)
sortScored(seq) ==
  IF seq = <<>> THEN <<>>
  ELSE insertScored(sortScored(SubSeq(seq, 1, Len(seq) - 1)), seq[Len(seq)])

\* the map callback: { product: p, score, keywordMatches, matchedKeywords }
scoredEntry(p, info) == [product |-> p] @@ scoreProduct(p, info)

\* categoryPool: the in-stock products that pass the domain filter
categoryPoolOf(inStock, pageDomains, currentBrandText) ==
  SelectSeq(inStock, LAMBDA p : inCategoryPool(p, pageDomains, currentBrandText))

\* .map(...).filter((x) => x.score > 0)
positiveEntries(pool, info) ==
  SelectSeq([i \in DOMAIN pool |-> scoredEntry(pool[i], info)], LAMBDA x : x.score > 0)

\* { top: scored.slice(0, limit), scored }
topAndScored(scored, limit) ==
  [top |-> SubSeq(scored, 1, IF limit < Len(scored) THEN limit ELSE Len(scored)),
   scored |-> scored]

EmptyMatch == [top |-> <<>>, scored |-> <<>>]

\* matchProducts from the point where inStock and pageDomains are known
matchInDomains(amazonInfo, inStock, pageDomains, limit) ==
  IF pageDomains = {} THEN EmptyMatch
  ELSE IF ~\E i \in DOMAIN inStock : getProductDomains(inStock[i]) \cap pageDomains # {}
  THEN EmptyMatch
  ELSE topAndScored(
         sortScored(positiveEntries(
           categoryPoolOf(inStock, pageDomains, normalizeText(amazonInfo.title)),
           WithPageDomains(amazonInfo, pageDomains))),
         limit)

\* variant: no domain gating, every in-stock entry is scored
matchProducts_Ungated(amazonInfo, products, limit) ==
  topAndScored(
    sortScored(positiveEntries(inStockOf(products),
                               WithPageDomains(amazonInfo, pageDomainsOf(amazonInfo)))),
    limit)

matchProducts(amazonInfo, products, limit) ==
  matchInDomains(amazonInfo, inStockOf(products), pageDomainsOf(amazonInfo), limit)

DefaultLimit == 3

(***************************************************************************)
(* Inputs of the matcher: pages and catalog entries.                       *)
(***************************************************************************)
MaxCatalog == 2

DomKeyboard ==
  [title |-> "Wireless Mechanical Keyboard", breadcrumbs |-> "Electronics",
   features |-> "Backlit keys by Deskly", description |-> ""]
DomCoffee ==
  [title |-> "Dark Roast Espresso Coffee", breadcrumbs |-> "Grocery",
   features |-> "Single-Origin  whole beans", description |-> "Kahawa candle-lit cafe"]
DomCandle ==
  [title |-> "Lavender Scented Soy Candle", breadcrumbs |-> "Home Decor",
   features |-> "Hand poured", description |-> "Coffee table decor by Glow"]
DomCollagen ==
  [title |-> "Vital Proteins Collagen Peptides", breadcrumbs |-> "Health",
   features |-> "Unflavored powder", description |-> ""]
Doms == {DomKeyboard, DomCoffee, DomCandle, DomCollagen}

Product(id, name, brand, category, kws, cats, rating, reviews, avail) ==
  [id |-> id, name |-> name, brand |-> brand, category |-> category, amazonKeywords |-> kws,
   amazonCategories |-> cats, rating |-> rating, reviewCount |-> reviews, availability |-> avail,
   productUrl |-> "https://www.amazon.com/dp/B00CATALG" \o id,
   imageUrl |-> "https://m.media-amazon.com/images/I/" \o id \o ".jpg"]

PEspresso == Product("1", "Ethiopian Espresso", "BLK Sip", "coffee",
                     <<"Espresso", "single-origin">>, <<"Coffee">>, 48, 350, "in_stock")
PGeneric  == Product("2", "House Blend", "Kahawa", "coffee",
                     <<"coffee", "Candle">>, <<"Coffee">>, 50, 5000, "in_stock")
PCandle1  == Product("3", "Lavender Candle", "Glow", "candles",
                     <<>>, <<>>, 45, 120, Null)
PCandle2  == Product("4", "Soy Candle", "Ember", "candles",
                     <<"lavender", "cedarwood">>, <<>>, 45, 120, "in_stock")
PGreens   == Product("5", "Daily Greens", "Vital Proteins", "wellness",
                     <<"powder">>, <<>>, 42, 1000, "in_stock")
PKeyboard == Product("6", "Keyboard Wrist Rest", "Deskly", "office",
                     <<"keyboard", "wireless">>, <<>>, 40, 90, "in_stock")
PCollagen == Product("7", "Marine Collagen", "Oshun", "supplements",
                     <<"collagen">>, <<>>, 47, 300, "in_stock")
PSoldOut  == Product("8", "Espresso Roast", "Noir", "coffee",
                     <<"espresso", "roast">>, <<>>, 50, 9000, "out_of_stock")
PChicory  == Product("9", "Roast Chicory Blend", "Sprout", "wellness",
                     <<"roast", "powder">>, <<>>, 50, 5000, "in_stock")
PBeauty   == Product("10", "Beauty Collagen", "Halo", "unknown",
                     <<"collagen">>, <<>>, 47, 350, "in_stock")
Products ==
  {PEspresso, PGeneric, PCandle1, PCandle2, PGreens, PKeyboard, PCollagen, PSoldOut,
   PChicory, PBeauty}

\* the number an entry's id spells
IdNumber(p) == CHOOSE k \in 1..Cardinality(Products) : ToString(k) = p.id

\* catalogs: sequences of distinct entries (ids are unique in a loaded catalog); the
\* first two entries come in any order, later ones follow in ascending id order
Catalogs ==
  UNION {{c \in [1..n -> Products] :
            /\ \A i, j \in 1..n : i # j => c[i] # c[j]
            /\ \A i \in 3..n : \A j \in 1..(i - 1) : IdNumber(c[j]) < IdNumber(c[i])}
         : n \in 0..MaxCatalog}

\* page domain sets handed to scoreProduct: the one matchProducts computes, and others
ScorePageDomains(info) == {pageDomainsOf(info), {}}

Limits == {1, DefaultLimit}

(***************************************************************************)
(* The site: the pages the browser can show, and the two catalog sources.  *)
(***************************************************************************)
MaxUrlChanges == 2

UrlA == "https://www.amazon.com/dp/B00PAGEAAA"
UrlB == "https://www.amazon.com/dp/B00PAGEBBB"
UrlC == "https://www.amazon.com/dp/B00CATALG1"
UrlS == "https://www.amazon.com/s?k=coffee"

Urls == {UrlA, UrlB, UrlC, UrlS}

\* the document shown at each URL
SiteDom(u) ==
  IF u = UrlA THEN DomCoffee
  ELSE IF u = UrlB THEN DomKeyboard
  ELSE IF u = UrlC THEN DomCoffee
  ELSE DomKeyboard

RemoteCatalog == <<PEspresso, PGeneric>>
StaticCatalog == <<PEspresso>>

\* The functions of the URL and of the document, tabulated over the site
\* isProductPage(u)
ProductPageUrls == {u \in Urls : isProductPage(u)}

\* extractAmazonAsinFromUrl(u)
AsinAt == [u \in Urls |-> extractAmazonAsinFromUrl(u)]

\* extractAmazonProduct() with the document of u loaded
FactsAt == [u \in Urls |-> extractAmazonProduct(SiteDom(u))]

\* matchProducts(amazonInfo, products, { limit: 3 }).top at u
TopAt ==
  LET TopFor == [info \in {FactsAt[u] : u \in Urls} |->
                  [c \in {RemoteCatalog, StaticCatalog} |->
                     matchProducts(info, c, DefaultLimit).top]]
  IN [u \in Urls |-> TopFor[FactsAt[u]]]

(***************************************************************************)
(* State.                                                                  *)
(***************************************************************************)
VARIABLES
  page,       \* matcher input: the DOM of the page being matched
  catalog,    \* matcher input: the loaded products
  scoreOut,   \* last scoreProduct call: Some([product, pageDomains, result]), or None
  matchOut,   \* last matchProducts call: Some([limit, top, scored]), or None
  html,       \* background input: the markup the fetch of the product URL returns
  callOut,    \* last call of a background function: Some([fn, args, result]), or None
  loadIn,     \* catalog load input: what storage, the remote request and the bundled file give
  loadOut,    \* catalog load: [stage, state, source, products] of the load as it runs
  badge,      \* background: the tabs, flashIntervalsByTabId, the running flash intervals,
              \* the badge of each tab and the badge API calls that were refused
  href,                     \* window.location.href
  lastObservedUrl,
  cachedAmazonInfo,         \* None or Some(page facts)
  cachedMatches,            \* None or Some(top)
  cachedUrl,                \* Null or a URL
  cachedAsin,               \* Null or an ASIN
  toastInitialized,
  toastClosedByUser,
  toastCountdownIntervalId, \* 0 (null) or the id of an interval
  toastEl,                  \* the #bbd-toast element: None or Some([stale]), stale when
                            \* its timer was scheduled before the last navigation
  intervals,                \* active countdown intervals: set of [id, remaining]
  modal,                    \* the #bbd-modal-overlay element: None or Some([forUrl, items, imgs])
  modalInitialized,
  hydrations,               \* image resolutions in flight for the displayed overlay:
                            \* set of [img, stage, url, stale, fetches], fetches the
                            \* outcomes of the fetches of the product URL so far
  productDatabasePromise,   \* "null", "pending", "fulfilled" or "rejected"
  loadStage,                \* the step the one catalog load is at: "none", "remote", "static", "done"
  dbValue,                  \* None or Some(products) the promise is fulfilled with
  loadsStarted,             \* number of catalog loads started
  waiters,                  \* continuations waiting on the pending catalog promise
  microtasks,               \* continuations ready to run before the next task
  timers,                   \* pending 2-second timeouts, in scheduling order: [top, stale]
  sent,                     \* messages handed to sendBackgroundMessage by the last step
  navCount,                 \* number of resetRecommendationStateForNavigation calls
  changeCount               \* number of changes of window.location.href

loadVars == <<loadIn, loadOut>>

mvars == <<page, catalog, scoreOut, matchOut, html, callOut, loadVars, badge>>

cacheVars == <<cachedAmazonInfo, cachedMatches, cachedUrl, cachedAsin>>

toastVars == <<toastInitialized, toastClosedByUser, toastCountdownIntervalId, toastEl, intervals>>

modalVars == <<modal, modalInitialized, hydrations>>

dbVars == <<productDatabasePromise, loadStage, dbValue, loadsStarted>>

vars ==
  <<page, catalog, scoreOut, matchOut, html, callOut, loadIn, loadOut, badge, href, lastObservedUrl, cachedAmazonInfo, cachedMatches,
    cachedUrl, cachedAsin, toastInitialized, toastClosedByUser, toastCountdownIntervalId, toastEl,
    intervals, modal, modalInitialized, hydrations, productDatabasePromise, loadStage, dbValue,
    loadsStarted, waiters, microtasks, timers, sent, navCount, changeCount>>

\* everything but the message output of the last step
programVars ==
  <<href, lastObservedUrl, cachedAmazonInfo, cachedMatches, cachedUrl, cachedAsin,
    toastInitialized, toastClosedByUser, toastCountdownIntervalId, toastEl, intervals, modal,
    modalInitialized, hydrations, productDatabasePromise, loadStage, dbValue, loadsStarted,
    waiters, microtasks, timers, navCount>>

(***************************************************************************)
(* Catalog load (memoized).                                                *)
(***************************************************************************)
\* a loadProductDatabase that forgets a rejected promise and loads again
loadProductDatabase_Await_Retrying(k) ==
  /\ productDatabasePromise' =
       IF productDatabasePromise \in {"null", "rejected"} THEN "pending" ELSE productDatabasePromise
  /\ loadStage' = IF productDatabasePromise \in {"null", "rejected"} THEN "remote" ELSE loadStage
  /\ loadsStarted' =
       IF productDatabasePromise \in {"null", "rejected"} THEN loadsStarted + 1 ELSE loadsStarted
  /\ dbValue' = dbValue
  /\ IF productDatabasePromise \in {"null", "pending", "rejected"}
     THEN waiters' = Append(waiters, k) /\ microtasks' = microtasks
     ELSE microtasks' = Append(microtasks, k) /\ waiters' = waiters

\* loadProductDatabase(), then await: the promise is created (and the one load
\* started) on the first call only; the awaiting continuation k waits for a pending
\* promise and is queued as a microtask for a settled one.
loadProductDatabase_Await(k) ==
  /\ productDatabasePromise' =
       IF productDatabasePromise = "null" THEN "pending" ELSE productDatabasePromise
  /\ loadStage' = IF productDatabasePromise = "null" THEN "remote" ELSE loadStage
  /\ loadsStarted' = IF productDatabasePromise = "null" THEN loadsStarted + 1 ELSE loadsStarted
  /\ dbValue' = dbValue
  /\ IF productDatabasePromise \in {"null", "pending"}
     THEN waiters' = Append(waiters, k) /\ microtasks' = microtasks
     ELSE microtasks' = Append(microtasks, k) /\ waiters' = waiters

\* the promise settles: every waiting continuation becomes runnable, in order
Settle(state, value) ==
  /\ productDatabasePromise' = state
  /\ dbValue' = value
  /\ loadStage' = "done"
  /\ microtasks' = microtasks \o waiters
  /\ waiters' = <<>>
  /\ loadsStarted' = loadsStarted

NoOutput == sent' = <<>>

\* loadSupabaseProducts() returned at least one product
LoadRemoteOk ==
  /\ microtasks = <<>>
  /\ productDatabasePromise = "pending" /\ loadStage = "remote"
  /\ Settle("fulfilled", Some(RemoteCatalog))
  /\ NoOutput
  /\ UNCHANGED <<mvars, href, lastObservedUrl, cacheVars, toastVars, modalVars, timers,
                 navCount, changeCount>>

\* loadSupabaseProducts() threw or returned no product: fall back to businesses.json
LoadRemoteMiss ==
  /\ microtasks = <<>>
  /\ productDatabasePromise = "pending" /\ loadStage = "remote"
  /\ loadStage' = "static"
  /\ NoOutput
  /\ UNCHANGED <<mvars, href, lastObservedUrl, cacheVars, toastVars, modalVars, timers,
                 navCount, changeCount, productDatabasePromise, dbValue, loadsStarted,
                 waiters, microtasks>>

\* loadBusinessesProducts() returned the validated static catalog
LoadStaticOk ==
  /\ microtasks = <<>>
  /\ productDatabasePromise = "pending" /\ loadStage = "static"
  /\ Settle("fulfilled", Some(StaticCatalog))
  /\ NoOutput
  /\ UNCHANGED <<mvars, href, lastObservedUrl, cacheVars, toastVars, modalVars, timers,
                 navCount, changeCount>>

\* loadBusinessesProducts() threw: the promise is rejected
LoadStaticFail ==
  /\ microtasks = <<>>
  /\ productDatabasePromise = "pending" /\ loadStage = "static"
  /\ Settle("rejected", None)
  /\ NoOutput
  /\ UNCHANGED <<mvars, href, lastObservedUrl, cacheVars, toastVars, modalVars, timers,
                 navCount, changeCount>>

(***************************************************************************)
(* Toast.                                                                  *)
(***************************************************************************)
\* a closeToast that leaves the countdown interval running
closeToast_KeepsCountdown ==
  /\ toastEl' = None
  /\ toastInitialized' = FALSE
  /\ UNCHANGED <<intervals, toastCountdownIntervalId>>

\* closeToast(): remove the element, clear the guard, cancel the countdown
closeToast ==
  /\ toastEl' = None
  /\ toastInitialized' = FALSE
  /\ intervals' = {i \in intervals : i.id # toastCountdownIntervalId}
  /\ toastCountdownIntervalId' = 0

isCurrentAmazonProductInDatabase(products, h) ==
  LET currentAsin == extractAmazonAsinFromUrl(h)
  IN /\ currentAsin # Null
     /\ \E i \in DOMAIN products : extractAmazonAsinFromUrl(products[i].productUrl) = currentAsin

\* isCurrentAmazonProductInDatabase(products) at u
InDatabaseAt ==
  [u \in Urls |-> [c \in {RemoteCatalog, StaticCatalog} |-> isCurrentAmazonProductInDatabase(c, u)]]

(***************************************************************************)
(* Navigation detection.                                                   *)
(***************************************************************************)
StatusRun(h) == [kind |-> "status", forUrl |-> h, force |-> FALSE]

\* a navigation was detected: what is pending now belongs to an earlier page
MarkStale(pending) == [i \in DOMAIN pending |-> [pending[i] EXCEPT !.stale = TRUE]]

\* resetRecommendationStateForNavigation(); logProductPageStatus() up to its await,
\* with the page at h
ResetAndRecompute(h) ==
  /\ lastObservedUrl' = h
  /\ cachedAmazonInfo' = None
  /\ cachedMatches' = None
  /\ cachedUrl' = Null
  /\ cachedAsin' = Null
  /\ toastClosedByUser' = FALSE
  /\ closeToast
  /\ navCount' = navCount + 1
  /\ IF h \in ProductPageUrls
     THEN /\ loadProductDatabase_Await(StatusRun(h))
          /\ sent' = <<"FAIRFINDZ_CLEAR_BADGE">>
     ELSE /\ sent' = <<"FAIRFINDZ_CLEAR_BADGE", "FAIRFINDZ_CLEAR_BADGE">>
          /\ UNCHANGED <<dbVars, waiters, microtasks>>
  /\ timers' = MarkStale(timers)
  /\ hydrations' = {[x EXCEPT !.stale = TRUE] : x \in hydrations}
  /\ UNCHANGED <<modal, modalInitialized>>

\* an onPossibleUrlChange without the comparison with lastObservedUrl
onPossibleUrlChange_Unconditional(h) == ResetAndRecompute(h)

\* onPossibleUrlChange() with window.location.href = h
onPossibleUrlChange(h) ==
  IF h = lastObservedUrl
  THEN /\ NoOutput
       /\ UNCHANGED <<lastObservedUrl, cacheVars, toastVars, modalVars, dbVars, waiters,
                      microtasks, timers, navCount>>
  ELSE ResetAndRecompute(h)

Changed(u) == IF u # href THEN changeCount + 1 ELSE changeCount

\* history.pushState(..., u) through the hook installed by the content script
PushState ==
  /\ microtasks = <<>>
  /\ \E u \in Urls :
       /\ Changed(u) <= MaxUrlChanges
       /\ href' = u
       /\ changeCount' = Changed(u)
       /\ onPossibleUrlChange(u)
  /\ UNCHANGED mvars

\* history.replaceState(..., u) through the hook
ReplaceState ==
  /\ microtasks = <<>>
  /\ \E u \in Urls :
       /\ Changed(u) <= MaxUrlChanges
       /\ href' = u
       /\ changeCount' = Changed(u)
       /\ onPossibleUrlChange(u)
  /\ UNCHANGED mvars

\* history traversal (back / forward) to u: the URL changes and popstate is dispatched
PopState ==
  /\ microtasks = <<>>
  /\ \E u \in Urls :
       /\ Changed(u) <= MaxUrlChanges
       /\ href' = u
       /\ changeCount' = Changed(u)
       /\ onPossibleUrlChange(u)
  /\ UNCHANGED mvars

\* the page changes its URL without the content script's hooks running (the case
\* the poll exists for)
SilentUrlChange ==
  /\ microtasks = <<>>
  /\ \E u \in Urls \ {href} :
       /\ changeCount < MaxUrlChanges
       /\ href' = u
       /\ changeCount' = changeCount + 1
  /\ NoOutput
  /\ UNCHANGED <<mvars, lastObservedUrl, cacheVars, toastVars, modalVars, dbVars, waiters,
                 microtasks, timers, navCount>>

\* window.setInterval(onPossibleUrlChange, 1000)
Poll ==
  /\ microtasks = <<>>
  /\ onPossibleUrlChange(href)
  /\ UNCHANGED <<mvars, href, changeCount>>

(***************************************************************************)
(* Toast and modal elements.                                               *)
(***************************************************************************)
MaxWaiters == 2

IntervalIds == {i.id : i \in intervals}

\* the id window.setInterval returns: one no active interval has
NewIntervalId == CHOOSE n \in 1..(Cardinality(intervals) + 1) : n \notin IntervalIds

ToastCountdownStart == 5

\* a createToast without its two guards: it builds a toast and starts a countdown on
\* every call
createToast_Unguarded(stale) ==
  /\ toastInitialized' = TRUE
  /\ toastClosedByUser' = toastClosedByUser
  /\ toastEl' = Some([stale |-> stale])
  /\ intervals' = intervals \cup {[id |-> NewIntervalId, remaining |-> ToastCountdownStart]}
  /\ toastCountdownIntervalId' = NewIntervalId

\* createToast(), called from a timer (stale: scheduled before the last navigation)
createToast(stale) ==
  IF toastInitialized
  THEN UNCHANGED toastVars
  ELSE /\ toastInitialized' = TRUE
       /\ toastClosedByUser' = toastClosedByUser
       /\ IF toastEl.some
          THEN UNCHANGED <<toastEl, intervals, toastCountdownIntervalId>>
          ELSE /\ toastEl' = Some([stale |-> stale])
               /\ intervals' = intervals \cup {[id |-> NewIntervalId, remaining |-> ToastCountdownStart]}
               /\ toastCountdownIntervalId' = NewIntervalId

ProductIds(matches) == [i \in DOMAIN matches |-> matches[i].product.id]

ImageUrls(matches) == [i \in DOMAIN matches |-> matches[i].product.imageUrl]

\* createModal({ amazonInfo, matches }): the overlay with one card per match, and
\* hydrateModalProductImages(overlay) started for every card image
createModal(matches) ==
  IF modal.some
  THEN UNCHANGED modalVars
  ELSE /\ modalInitialized' = TRUE
       /\ modal' = Some([forUrl |-> href,
                         items |-> ProductIds(matches),
                         imgs |-> [i \in DOMAIN matches |->
                                     [src |-> ImageUrls(matches)[i], stale |-> FALSE]]])
       /\ hydrations' = hydrations \cup
            {[img |-> i, stage |-> "primary", url |-> ImageUrls(matches)[i],
              stale |-> FALSE, fetches |-> <<>>] : i \in DOMAIN matches}

(***************************************************************************)
(* logProductPageStatus after its await, and the timer it schedules.       *)
(***************************************************************************)
\* the continuation of logProductPageStatus after `await loadProductDatabase()`
ResumeStatus ==
  /\ microtasks # <<>>
  /\ Head(microtasks).kind = "status"
  /\ microtasks' = Tail(microtasks)
  /\ IF productDatabasePromise = "rejected"
     THEN /\ NoOutput
          /\ UNCHANGED <<cacheVars, toastVars, timers>>
     ELSE IF InDatabaseAt[href][dbValue.val]
     THEN /\ sent' = <<"FAIRFINDZ_STOP_FLASHING", "FAIRFINDZ_CLEAR_BADGE">>
          /\ closeToast
          /\ UNCHANGED <<cacheVars, toastClosedByUser, timers>>
     ELSE LET amazonInfo == FactsAt[href]
              top == TopAt[href][dbValue.val]
          IN /\ cachedAmazonInfo' = Some(amazonInfo)
             /\ cachedUrl' = href
             /\ cachedAsin' = AsinAt[href]
             /\ cachedMatches' = Some(top)
             /\ timers' = Append(timers, [top |-> top, stale |-> FALSE])
             /\ NoOutput
             /\ UNCHANGED toastVars
  /\ UNCHANGED <<mvars, href, lastObservedUrl, modalVars, dbVars, waiters, navCount, changeCount>>

\* the guards of the timeout callback that precede createToast
timerShowsToast(t) ==
  /\ href \in ProductPageUrls
  /\ ~(cachedUrl # Null /\ cachedUrl # href)
  /\ ~(cachedAsin # Null /\ AsinAt[href] # Null /\ cachedAsin # AsinAt[href])
  /\ t.top # <<>>

\* the callback of window.setTimeout(..., 2000); equal delays fire in scheduling order
TimerFire ==
  /\ microtasks = <<>>
  /\ timers # <<>>
  /\ timers' = Tail(timers)
  /\ IF timerShowsToast(Head(timers))
     THEN createToast(Head(timers).stale)
     ELSE UNCHANGED toastVars
  /\ NoOutput
  /\ UNCHANGED <<mvars, href, lastObservedUrl, cacheVars, modalVars, dbVars, waiters,
                 microtasks, navCount, changeCount>>

\* the callback of the countdown interval created by createToast
CountdownTick ==
  /\ microtasks = <<>>
  /\ \E i \in intervals :
       IF i.remaining - 1 <= 0
       THEN /\ toastEl' = None
            /\ toastInitialized' = FALSE
            /\ toastCountdownIntervalId' = 0
            /\ intervals' =
                 {IF j = i THEN [j EXCEPT !.remaining = i.remaining - 1] ELSE j :
                    j \in {k \in intervals : k.id # toastCountdownIntervalId}}
            /\ toastClosedByUser' = toastClosedByUser
            /\ sent' = IF toastClosedByUser THEN <<>> ELSE <<"FAIRFINDZ_START_FLASHING">>
       ELSE /\ intervals' = (intervals \ {i}) \cup {[i EXCEPT !.remaining = i.remaining - 1]}
            /\ NoOutput
            /\ UNCHANGED <<toastEl, toastInitialized, toastCountdownIntervalId, toastClosedByUser>>
  /\ UNCHANGED <<mvars, href, lastObservedUrl, cacheVars, modalVars, dbVars, waiters,
                 microtasks, timers, navCount, changeCount>>

\* click on the toast's close button: closeByUser
ToastCloseClick ==
  /\ microtasks = <<>>
  /\ toastEl.some
  /\ toastClosedByUser' = TRUE
  /\ closeToast
  /\ sent' = <<"FAIRFINDZ_START_FLASHING">>
  /\ UNCHANGED <<mvars, href, lastObservedUrl, cacheVars, modalVars, dbVars, waiters,
                 microtasks, timers, navCount, changeCount>>

\* click on the toast's primary button: stop flashing, close, open the full modal
ToastPrimaryClick ==
  /\ microtasks = <<>>
  /\ toastEl.some
  /\ sent' = <<"FAIRFINDZ_STOP_FLASHING">>
  /\ closeToast
  /\ toastClosedByUser' = toastClosedByUser
  /\ createModal(IF cachedMatches.some THEN cachedMatches.val ELSE <<>>)
  /\ UNCHANGED <<mvars, href, lastObservedUrl, cacheVars, dbVars, waiters,
                 microtasks, timers, navCount, changeCount>>

\* closeModal through the modal's close button, up to the removal of the overlay;
\* resolutions for the images of the removed overlay go on, but what they assign is
\* no longer part of the document, so they leave the state here
ModalClose ==
  /\ microtasks = <<>>
  /\ modal.some
  /\ modal' = None
  /\ modalInitialized' = FALSE
  /\ hydrations' = {}
  /\ NoOutput
  /\ UNCHANGED <<mvars, href, lastObservedUrl, cacheVars, toastVars, dbVars, waiters,
                 microtasks, timers, navCount, changeCount>>

(***************************************************************************)
(* FAIRFINDZ_SHOW_MODAL.                                                   *)
(***************************************************************************)
ModalRun(h, f) == [kind |-> "modal", forUrl |-> h, force |-> f]

cacheIsForOtherPage ==
  \/ cachedUrl # Null /\ cachedUrl # href
  \/ cachedAsin # Null /\ AsinAt[href] # Null /\ cachedAsin # AsinAt[href]

\* the runtime.onMessage listener for FAIRFINDZ_SHOW_MODAL, with the auth gate
\* letting the request through (forceOpen, or onAuthed / onGuest called at once)
ShowModalMessage ==
  /\ microtasks = <<>>
  /\ Len(waiters) < MaxWaiters
  /\ \E force \in BOOLEAN :
       IF href \notin ProductPageUrls
       THEN /\ NoOutput
            /\ UNCHANGED <<cacheVars, toastVars, modalVars, dbVars, waiters, microtasks>>
       ELSE /\ sent' = <<"FAIRFINDZ_STOP_FLASHING">>
            /\ IF cachedAmazonInfo.some /\ cachedMatches.some /\ ~cacheIsForOtherPage
               THEN /\ closeToast
                    /\ toastClosedByUser' = toastClosedByUser
                    /\ createModal(cachedMatches.val)
                    /\ UNCHANGED <<cacheVars, dbVars, waiters, microtasks>>
               ELSE /\ cachedAmazonInfo' =
                         IF cachedAmazonInfo.some /\ cachedMatches.some THEN None ELSE cachedAmazonInfo
                    /\ cachedMatches' =
                         IF cachedAmazonInfo.some /\ cachedMatches.some THEN None ELSE cachedMatches
                    /\ loadProductDatabase_Await(ModalRun(href, force))
                    /\ UNCHANGED <<cachedUrl, cachedAsin, toastVars, modalVars>>
  /\ UNCHANGED <<mvars, href, lastObservedUrl, timers, navCount, changeCount>>

\* the continuation of openAlternativesModal's fallback after `await loadProductDatabase()`
ResumeModal ==
  /\ microtasks # <<>>
  /\ Head(microtasks).kind = "modal"
  /\ microtasks' = Tail(microtasks)
  /\ IF productDatabasePromise = "rejected"
     THEN /\ NoOutput
          /\ UNCHANGED <<cacheVars, toastVars, modalVars>>
     ELSE IF ~Head(microtasks).force /\ InDatabaseAt[href][dbValue.val]
     THEN /\ sent' = <<"FAIRFINDZ_STOP_FLASHING", "FAIRFINDZ_CLEAR_BADGE">>
          /\ closeToast
          /\ UNCHANGED <<cacheVars, toastClosedByUser, modalVars>>
     ELSE LET amazonInfo == FactsAt[href]
              top == TopAt[href][dbValue.val]
          IN /\ cachedAmazonInfo' = Some(amazonInfo)
             /\ cachedUrl' = href
             /\ cachedAsin' = AsinAt[href]
             /\ cachedMatches' = Some(top)
             /\ closeToast
             /\ toastClosedByUser' = toastClosedByUser
             /\ createModal(top)
             /\ NoOutput
  /\ UNCHANGED <<mvars, href, lastObservedUrl, dbVars, waiters, timers, navCount, changeCount>>

(***************************************************************************)
(* hydrateModalProductImages: per image, the DB image first, then the      *)
(* background resolution, then the og:image fetch, then the resolved image.*)
(***************************************************************************)
ResolvedImageUrl == "https://m.media-amazon.com/images/I/resolved.jpg"

\* imgEl.src = url, for an image element of the displayed overlay
SetImageSrc(h, url) ==
  modal' = Some([modal.val EXCEPT !.imgs[h.img] = [src |-> url, stale |-> h.stale]])

HydrationStep(h, next) ==
  /\ hydrations' = (hydrations \ {h}) \cup next
  /\ UNCHANGED <<mvars, href, lastObservedUrl, cacheVars, toastVars, modalInitialized, dbVars,
                 waiters, microtasks, timers, navCount, changeCount>>

\* loadImageUrl(primarySrc) resolved
ImagePrimaryLoaded ==
  /\ microtasks = <<>>
  /\ \E h \in hydrations :
       /\ h.stage = "primary" /\ h.url # ""
       /\ SetImageSrc(h, h.url)
       /\ HydrationStep(h, {})
  /\ NoOutput

\* loadImageUrl(primarySrc) rejected: ask the background script
ImagePrimaryFailed ==
  /\ microtasks = <<>>
  /\ \E h \in hydrations :
       /\ h.stage = "primary"
       /\ modal' = modal
       /\ HydrationStep(h, {[h EXCEPT !.stage = "background"]})
  /\ sent' = <<"FAIRFINDZ_RESOLVE_PRODUCT_IMAGE">>

\* what the background script did with the product URL before it answered: its fetch
\* failed (threw, or the status was not ok), or succeeded with or without an image in
\* the page; "lastError" when no answer came and no fetch is known
BackgroundOutcomes == {"failed", "image", "noImage", "lastError"}

\* the fetches of the product URL after the background script's
FetchesAfterBackground(outcome) ==
  IF outcome = "lastError" THEN <<>>
  ELSE IF outcome = "failed" THEN <<"failed">>
  ELSE <<"ok">>

\* the callback of resolveImageViaBackground, and the rest of the image's hydration up
\* to its next await: with an image URL, loadImageUrl(resolved); with none,
\* resolveAmazonOgImage(productUrl), whose fetch of the product URL is issued at once
\* (the cards of one overlay hold different product URLs, so its cache has no entry)
afterBackgroundResponse(h, outcome) ==
  IF outcome = "image"
  THEN [h EXCEPT !.stage = "load", !.url = ResolvedImageUrl,
                 !.fetches = FetchesAfterBackground(outcome)]
  ELSE [h EXCEPT !.stage = "og", !.url = Null,
                 !.fetches = Append(FetchesAfterBackground(outcome), "pending")]

\* the response to FAIRFINDZ_RESOLVE_PRODUCT_IMAGE: an image URL, or none and the
\* content script fetches the product page itself (resolveAmazonOgImage)
ImageBackgroundResponse ==
  /\ microtasks = <<>>
  /\ \E h \in hydrations : \E outcome \in BackgroundOutcomes :
       /\ h.stage = "background"
       /\ modal' = modal
       /\ HydrationStep(h, {afterBackgroundResponse(h, outcome)})
  /\ NoOutput

\* resolveAmazonOgImage returned: its fetch failed (null), or succeeded with or without
\* an image in the page
ImageOgResolved ==
  /\ microtasks = <<>>
  /\ \E h \in hydrations : \E outcome \in {"failed", "image", "noImage"} :
       /\ h.stage = "og"
       /\ modal' = modal
       /\ HydrationStep(h, {[h EXCEPT !.stage = "load",
                                      !.url = IF outcome = "image" THEN ResolvedImageUrl ELSE Null,
                                      !.fetches[Len(h.fetches)] =
                                        IF outcome = "failed" THEN "failed" ELSE "ok"]})
  /\ NoOutput

\* loadImageUrl(resolved) resolved
ImageResolvedLoaded ==
  /\ microtasks = <<>>
  /\ \E h \in hydrations :
       /\ h.stage = "load" /\ h.url # Null
       /\ SetImageSrc(h, h.url)
       /\ HydrationStep(h, {})
  /\ NoOutput

\* loadImageUrl(resolved) rejected: the placeholder stays
ImageResolvedFailed ==
  /\ microtasks = <<>>
  /\ \E h \in hydrations :
       /\ h.stage = "load"
       /\ modal' = modal
       /\ HydrationStep(h, {})
  /\ NoOutput

(***************************************************************************)
(* The content script.                                                     *)
(***************************************************************************)
MatcherIdle ==
  /\ page = DomKeyboard
  /\ catalog = <<>>
  /\ scoreOut = None
  /\ matchOut = None

ExtractorIdle ==
  /\ html = ""
  /\ callOut = None

\* what a request answers: kind says how it ended, rows what its body holds
Answer(kind, rows) == [kind |-> kind, rows |-> rows]

\* the load as it runs: the step it is at, the state of its promise, the source of
\* the products it delivers and the products
Load(stage, state, source, products) ==
  [stage |-> stage, state |-> state, source |-> source, products |-> products]

\* no catalog load is looked at
LoaderIdle ==
  /\ loadIn = [cfg |-> FALSE, remote |-> Answer("throws", <<>>), static |-> Answer("throws", <<>>)]
  /\ loadOut = Load("idle", "pending", "none", <<>>)

\* the tabs of the browser
Tabs == {1, 2}

\* the handler the background script ran last and the tab it ran for
Handled(type, tabId) == [type |-> type, tabId |-> tabId]

\* the background script after start-up in a browser where every tab is open:
\* flashIntervalsByTabId is empty (0 stands for no entry), no interval runs, no
\* badge is set, no badge call was made or refused. removing holds the closed tabs
\* whose tabs.onRemoved event is still to be handled, rejections the number of
\* rejected promises of badge calls whose catch callback is still to run.
BadgeAtStart(promiseApi) ==
  [open |-> [t \in Tabs |-> TRUE],
   flashIntervalsByTabId |-> [t \in Tabs |-> 0],
   timers |-> {},
   text |-> [t \in Tabs |-> ""],
   asked |-> [t \in Tabs |-> Null],
   removing |-> [t \in Tabs |-> FALSE],
   rejections |-> [t \in Tabs |-> 0],
   promiseApi |-> promiseApi,
   handled |-> Handled("none", 0)]

\* no badge handling is looked at
BadgeIdle == badge = BadgeAtStart(TRUE)

\* the state after the script has run on a page at URL h: logProductPageStatus()
\* was called, lastObservedUrl recorded and the hooks and the poll installed
InitAt(h) ==
  /\ href = h
  /\ lastObservedUrl = h
  /\ cachedAmazonInfo = None
  /\ cachedMatches = None
  /\ cachedUrl = Null
  /\ cachedAsin = Null
  /\ toastInitialized = FALSE
  /\ toastClosedByUser = FALSE
  /\ toastCountdownIntervalId = 0
  /\ toastEl = None
  /\ intervals = {}
  /\ modal = None
  /\ modalInitialized = FALSE
  /\ hydrations = {}
  /\ productDatabasePromise = IF h \in ProductPageUrls THEN "pending" ELSE "null"
  /\ loadStage = IF h \in ProductPageUrls THEN "remote" ELSE "none"
  /\ dbValue = None
  /\ loadsStarted = IF h \in ProductPageUrls THEN 1 ELSE 0
  /\ waiters = IF h \in ProductPageUrls THEN <<StatusRun(h)>> ELSE <<>>
  /\ microtasks = <<>>
  /\ timers = <<>>
  /\ sent = IF h \in ProductPageUrls THEN <<>> ELSE <<"FAIRFINDZ_CLEAR_BADGE">>
  /\ navCount = 0
  /\ changeCount = 0

Init == MatcherIdle /\ ExtractorIdle /\ LoaderIdle /\ BadgeIdle /\ \E h \in Urls : InitAt(h)

Next ==
  \/ PushState \/ ReplaceState \/ PopState \/ SilentUrlChange \/ Poll
  \/ LoadRemoteOk \/ LoadRemoteMiss \/ LoadStaticOk \/ LoadStaticFail
  \/ ResumeStatus \/ ResumeModal
  \/ TimerFire \/ CountdownTick \/ ToastCloseClick \/ ToastPrimaryClick
  \/ ShowModalMessage \/ ModalClose
  \/ ImagePrimaryLoaded \/ ImagePrimaryFailed \/ ImageBackgroundResponse
  \/ ImageOgResolved \/ ImageResolvedLoaded \/ ImageResolvedFailed

Spec == Init /\ [][Next]_vars

(***************************************************************************)
(* The matcher applied to drawn inputs.                                    *)
(***************************************************************************)
\* the page facts of each page, computed once
PageInfoAt == [d \in Doms |-> extractAmazonProduct(d)]

pageInfo == PageInfoAt[page]

InitMatch ==
  /\ BadgeIdle
  /\ page \in Doms
  /\ catalog \in Catalogs
  /\ scoreOut = None
  /\ matchOut = None
  /\ ExtractorIdle
  /\ LoaderIdle
  /\ InitAt(UrlS)

\* scoreProduct(p, { ...amazonInfo, pageDomains })
ScoreCall ==
  /\ scoreOut = None /\ matchOut = None
  /\ \E i \in DOMAIN catalog : \E pd \in ScorePageDomains(pageInfo) :
       /\ scoreOut' = Some([product |-> catalog[i], pageDomains |-> pd,
                            result |-> scoreProduct(catalog[i], WithPageDomains(pageInfo, pd))])
       /\ UNCHANGED <<page, catalog, matchOut>>
  /\ UNCHANGED <<html, callOut, loadVars, badge, programVars, sent, changeCount>>

\* variant: the sort runs on the products array itself and leaves it reordered
productsAfterMatch_Reordered(products) ==
  [i \in DOMAIN products |-> products[Len(products) + 1 - i]]

\* the products array after matchProducts returned: filter, map, sort and slice work
\* on arrays of their own, and no entry is assigned to
productsAfterMatch(products) == products

\* matchProducts(amazonInfo, products, { limit })
MatchCall ==
  /\ scoreOut = None /\ matchOut = None
  /\ \E l \in Limits :
       /\ matchOut' = Some([limit |-> l] @@ matchProducts(pageInfo, catalog, l))
       /\ catalog' = productsAfterMatch(catalog)
       /\ UNCHANGED <<page, scoreOut>>
  /\ UNCHANGED <<html, callOut, loadVars, badge, programVars, sent, changeCount>>

\* the same call once more: matchProducts(amazonInfo, products, { limit }) with the
\* page facts and the limit of the call before
MatchCallAgain ==
  /\ matchOut.some
  /\ "previous" \notin DOMAIN matchOut.val
  /\ matchOut' = Some([limit |-> matchOut.val.limit, previous |-> matchOut.val]
                      @@ matchProducts(pageInfo, catalog, matchOut.val.limit))
  /\ catalog' = productsAfterMatch(catalog)
  /\ UNCHANGED <<page, scoreOut>>
  /\ UNCHANGED <<html, callOut, loadVars, badge, programVars, sent, changeCount>>

NextMatch == ScoreCall \/ MatchCall \/ MatchCallAgain

SpecMatch == InitMatch /\ [][NextMatch]_vars

(***************************************************************************)
(* The background script (src/unnamed/part_002): the field extractors and  *)
(* the FAIRFINDZ_RESOLVE_PRODUCT_META handler.  Markup is a TLA+ string;   *)
(* regular expressions are matched position by position, as the engine     *)
(* does.                                                                   *)
(***************************************************************************)
IsDigit(c) == c \in DigitChars

\* \s
IsWs(c) == IsSpace(c)

\* text.replace(/[^0-9.]/g, "")
RECURSIVE DigitsAndDots(_)
DigitsAndDots(s) ==
  IF s = "" THEN ""
  ELSE (IF IsDigit(CharAt(s, 1)) \/ CharAt(s, 1) = "." THEN CharAt(s, 1) ELSE "")
       \o DigitsAndDots(SubSeq(s, 2, Len(s)))

\* text.replace(/\s+/g, "") and .replace(/,/g, "")
RECURSIVE Without(_, _)
Without(s, chars) ==
  IF s = "" THEN ""
  ELSE (IF CharAt(s, 1) \in chars THEN "" ELSE CharAt(s, 1)) \o Without(SubSeq(s, 2, Len(s)), chars)

DigitValue ==
  "0" :> 0 @@ "1" :> 1 @@ "2" :> 2 @@ "3" :> 3 @@ "4" :> 4 @@
  "5" :> 5 @@ "6" :> 6 @@ "7" :> 7 @@ "8" :> 8 @@ "9" :> 9

\* the number a string of digits spells, 0 for the empty string
RECURSIVE DigitsToNat(_)
DigitsToNat(s) ==
  IF s = "" THEN 0
  ELSE DigitsToNat(SubSeq(s, 1, Len(s) - 1)) * 10 + DigitValue[CharAt(s, Len(s))]

\* numbers are kept in thousandths; NaN is a value of its own
NumericScale == 1000

NaN == -1

\* Number(s) for a string of digits and dots: "" is 0, "." and a string with two
\* dots are NaN, "5." is 5, ".5" is 0.5.  Fraction digits after the third are
\* dropped (the modelled markup holds no such number).
NumberOf(s) ==
  LET dots == {i \in 1..Len(s) : CharAt(s, i) = "."}
  IN IF dots = {} THEN DigitsToNat(s) * NumericScale
     ELSE IF Cardinality(dots) > 1 \/ s = "." THEN NaN
     ELSE LET d == CHOOSE i \in dots : TRUE
              frac == SubSeq(s \o "000", d + 1, d + 3)
          IN DigitsToNat(SubSeq(s, 1, d - 1)) * NumericScale + DigitsToNat(frac)

\* Number(text.replace(/[^0-9.]/g, ""))
numericOf(text) == NumberOf(DigitsAndDots(text))

\* the index of the first character of s at or after i that is not whitespace,
\* Len(s) + 1 when there is none
SkipWs(s, i) ==
  IF \A j \in i..Len(s) : IsWs(CharAt(s, j)) THEN Len(s) + 1
  ELSE CHOOSE k \in i..Len(s) : ~IsWs(CharAt(s, k)) /\ \A j \in i..(k - 1) : IsWs(CharAt(s, j))

\* /^\$\s*\d[\d,]*\.\d{2}$/.test(t)
MatchesPlausiblePrice(t) ==
  /\ Len(t) >= 5
  /\ CharAt(t, 1) = "$"
  /\ LET k == SkipWs(t, 2)
     IN /\ k <= Len(t) - 3
        /\ IsDigit(CharAt(t, k))
        /\ \A j \in (k + 1)..(Len(t) - 3) : IsDigit(CharAt(t, j)) \/ CharAt(t, j) = ","
  /\ CharAt(t, Len(t) - 2) = "."
  /\ IsDigit(CharAt(t, Len(t) - 1))
  /\ IsDigit(CharAt(t, Len(t)))

isPlausibleAmazonPriceText(priceText) ==
  IF priceText = Null THEN FALSE ELSE MatchesPlausiblePrice(Trim(priceText))

\* /^\$\s*\d/.test(t)
StartsLikePrice(t) ==
  /\ StartsWith(t, "$")
  /\ SkipWs(t, 2) <= Len(t)
  /\ IsDigit(CharAt(t, SkipWs(t, 2)))

InterstitialMarkers ==
  {"type the characters you see", "enter the characters you see", "automated access",
   "robot check", "captcha"}

\* the guard every extractor of the background script starts with
isInterstitial(markup) ==
  LET lowered == ToLowerCase(markup)
  IN \E m \in InterstitialMarkers : Includes(lowered, m)

(***************************************************************************)
(* Pattern matching on markup.  s is the markup, low its lower-case copy   *)
(* (for the patterns with the i flag); positions count from 1.             *)
(***************************************************************************)
\* the literal lit stands at position i of s
MatchAt(s, i, lit) ==
  i >= 1 /\ i + Len(lit) - 1 <= Len(s) /\ SubSeq(s, i, i + Len(lit) - 1) = lit

IsQuote(c) == c = "\"" \/ c = "'"

\* name=["']value["'] stands at position i of low
AttrAt(low, i, name, value) ==
  /\ MatchAt(low, i, name \o "=")
  /\ i + Len(name) + Len(value) + 2 <= Len(low)
  /\ IsQuote(CharAt(low, i + Len(name) + 1))
  /\ MatchAt(low, i + Len(name) + 2, value)
  /\ IsQuote(CharAt(low, i + Len(name) + Len(value) + 2))

AttrLen(name, value) == Len(name) + Len(value) + 3

\* the first position at or after i where character c stands, 0 when there is none
NextChar(s, i, c) ==
  IF \E k \in i..Len(s) : CharAt(s, k) = c
  THEN CHOOSE k \in i..Len(s) : CharAt(s, k) = c /\ \A j \in i..(k - 1) : CharAt(s, j) # c
  ELSE 0

\* the longest text [^<]{0,20} may take after the first character of a capture
MaxCaptureTail == 20

NoCapture == [ok |-> FALSE, text |-> "", last |-> 0]

\* [^>]*>\s*([^<\s][^<]{0,20})\s*< matched from position p: the captured text and the
\* position of the closing "<"
TagCapture(s, p) ==
  LET gt == NextChar(s, p, ">")
      a == SkipWs(s, gt + 1)
      lt == NextChar(s, a + 1, "<")
  IN IF gt = 0 \/ a > Len(s) \/ CharAt(s, a) = "<" \/ lt = 0 THEN NoCapture
     ELSE IF lt - a <= MaxCaptureTail + 1
     THEN [ok |-> TRUE, text |-> SubSeq(s, a, lt - 1), last |-> lt]
     ELSE IF \A j \in (a + MaxCaptureTail + 1)..(lt - 1) : IsWs(CharAt(s, j))
     THEN [ok |-> TRUE, text |-> SubSeq(s, a, a + MaxCaptureTail), last |-> lt]
     ELSE NoCapture

\* the last position of the run of characters of chars that starts at position i
\* (i - 1 when the character at i is not one of them)
RunEnd(s, i, chars) ==
  IF \A j \in i..Len(s) : CharAt(s, j) \in chars THEN Len(s)
  ELSE (CHOOSE j \in i..Len(s) :
          CharAt(s, j) \notin chars /\ \A h \in i..(j - 1) : CharAt(s, h) \in chars) - 1

\* [\d,]
AmountChars == DigitChars \cup {","}

\* \d{0,2} from position p: the position of the last character taken
CentsEnd(s, p) ==
  IF p > Len(s) \/ ~IsDigit(CharAt(s, p)) THEN p - 1
  ELSE IF p + 1 > Len(s) \/ ~IsDigit(CharAt(s, p + 1)) THEN p
  ELSE p + 1

\* \.?\d{0,2} from position stop
AmountTailEnd(s, stop) ==
  IF stop <= Len(s) /\ CharAt(s, stop) = "." THEN CentsEnd(s, stop + 1) ELSE CentsEnd(s, stop)

\* \d[\d,]*\.?\d{0,2} from position k, 0 when it does not match
AmountEnd(s, k) ==
  IF k > Len(s) \/ ~IsDigit(CharAt(s, k)) THEN 0 ELSE AmountTailEnd(s, RunEnd(s, k, AmountChars) + 1)

\* \$\s*\d[\d,]*\.?\d{0,2} matched greedily from position i: the position of its last
\* character, 0 when it does not match
PriceRunEnd(s, i) ==
  IF ~MatchAt(s, i, "$") THEN 0 ELSE AmountEnd(s, SkipWs(s, i + 1))

\* s.slice(from, to) for 0-based from and to
Slice(s, from, to) ==
  LET f == IF from < 0 THEN 0 ELSE from
      t == IF to > Len(s) THEN Len(s) ELSE to
  IN IF t <= f THEN "" ELSE SubSeq(s, f + 1, t)

\* the elements of a set of positions in ascending order
RECURSIVE Ascending(_)
Ascending(S) ==
  IF S = {} THEN <<>>
  ELSE LET m == CHOOSE x \in S : \A y \in S : x <= y
       IN <<m>> \o Ascending(S \ {m})

(***************************************************************************)
(* extractPriceFromHtml, strategy 1: the JSON "price to pay" block.        *)
(***************************************************************************)
PriceFloor == 5

JsonWindowLength == 15000

JsonContextBefore == 160

JsonContextAfter == 300

JsonAnchors == <<"\"priceToPay\"", "\"apexPriceToPay\"">>

JsonContextWords == {"coupon", "save", "savings", "discount", "promo", "promotion"}

\* the closing quote after a price that ends at position e
DisplayCloseAt(w, e) ==
  IF e = 0 \/ e + 1 > Len(w) \/ CharAt(w, e + 1) # "\"" THEN 0 ELSE e + 1

\* the opening quote at position q, then the price
DisplayQuoteAt(w, q) ==
  IF q > Len(w) \/ CharAt(w, q) # "\"" THEN 0 ELSE DisplayCloseAt(w, PriceRunEnd(w, q + 1))

\* the colon at position c, then \s*"
DisplayColonAt(w, c) ==
  IF c > Len(w) \/ CharAt(w, c) # ":" THEN 0 ELSE DisplayQuoteAt(w, SkipWs(w, c + 1))

\* "displayPrice"\s*:\s*"(\$\s*\d[\d,]*\.?\d{0,2})" matched at position i of the
\* window w (wl its lower-case copy): the position of the closing quote, 0 for no match
DisplayPriceEnd(w, wl, i) ==
  IF ~MatchAt(wl, i, "\"displayprice\"") THEN 0
  ELSE DisplayColonAt(w, SkipWs(w, i + Len("\"displayprice\"")))

\* the text captured by the match at position i
DisplayPriceText(w, wl, i) ==
  Trim(SubSeq(w, SkipWs(w, SkipWs(w, i + Len("\"displayprice\"")) + 1) + 1,
              DisplayPriceEnd(w, wl, i) - 1))

\* the lower-cased context of the match at position i (m.index = i - 1)
JsonContext(wl, i) == Slice(wl, i - 1 - JsonContextBefore, i - 1 + JsonContextAfter)

\* a value text with context ctx is pushed to candidates
JsonValueKept(text, ctx) ==
  /\ numericOf(text) # NaN
  /\ numericOf(text) >= PriceFloor * NumericScale
  /\ ~\E word \in JsonContextWords : Includes(ctx, word)

\* the match at position i is pushed to candidates
JsonCandidateKept(w, wl, i) == JsonValueKept(DisplayPriceText(w, wl, i), JsonContext(wl, i))

\* /\.[0-9]{2}$/.test(text)
HasCents(text) ==
  /\ Len(text) >= 3
  /\ CharAt(text, Len(text) - 2) = "."
  /\ IsDigit(CharAt(text, Len(text) - 1))
  /\ IsDigit(CharAt(text, Len(text)))

\* the texts of the matches at the positions of order
DisplayTexts(w, wl, order) == [n \in DOMAIN order |-> DisplayPriceText(w, wl, order[n])]

\* candidates, in match order
JsonCandidates(w, wl) ==
  DisplayTexts(w, wl, Ascending({i \in 1..Len(w) :
                                   DisplayPriceEnd(w, wl, i) # 0 /\ JsonCandidateKept(w, wl, i)}))

\* variant: the first candidate wins, cents or not
pickJsonPrice_First(candidates) ==
  IF candidates = <<>> THEN Null ELSE candidates[1]

\* candidates.find(with cents) || candidates[0], Null for no candidate
pickJsonPrice(candidates) ==
  IF \E n \in DOMAIN candidates : HasCents(candidates[n])
  THEN candidates[CHOOSE n \in DOMAIN candidates :
                    HasCents(candidates[n]) /\ \A k \in 1..(n - 1) : ~HasCents(candidates[k])]
  ELSE IF candidates # <<>> THEN candidates[1]
  ELSE Null

\* the window after the anchor: html.slice(idx, idx + 15000)
JsonWindowOf(markup, anchor) ==
  Slice(markup, IndexOf(markup, anchor) - 1, IndexOf(markup, anchor) - 1 + JsonWindowLength)

\* the price the JSON strategy finds for one anchor, Null for none
jsonPriceFor(markup, anchor) ==
  IF IndexOf(markup, anchor) = 0 THEN Null
  ELSE pickJsonPrice(JsonCandidates(JsonWindowOf(markup, anchor),
                                    ToLowerCase(JsonWindowOf(markup, anchor))))

\* a || b for results that are Null when there is none
OrElse(a, b) == IF a # Null THEN a ELSE b

\* the loop over jsonAnchors: the first anchor that yields a price
jsonPriceToPay(markup) ==
  OrElse(jsonPriceFor(markup, JsonAnchors[1]), jsonPriceFor(markup, JsonAnchors[2]))

(***************************************************************************)
(* extractPriceFromHtml, the markup strategies.                            *)
(***************************************************************************)
OffscreenAttrLen == AttrLen("class", "a-offscreen")

\* class=["']a-offscreen["'][^>]*>\s*([^<\s][^<]{0,20})\s*< matches at position j
OffscreenAt(s, low, j) ==
  AttrAt(low, j, "class", "a-offscreen") /\ TagCapture(s, j + OffscreenAttrLen).ok

OffscreenText(s, j) == TagCapture(s, j + OffscreenAttrLen).text

\* PREFIX[\s\S]{0,maxGap}?class=["']a-offscreen["']...: the capture of the leftmost
\* match, for PREFIX of length prefixLen standing at the positions in starts; Null
\* for no match
LazyOffscreen(s, low, starts, prefixLen, maxGap) ==
  LET hits == {j \in 1..Len(s) : OffscreenAt(s, low, j)}
      reach(i) == {j \in hits : i + prefixLen <= j /\ j <= i + prefixLen + maxGap}
      good == {i \in starts : reach(i) # {}}
  IN IF good = {} THEN Null
     ELSE LET i == CHOOSE x \in good : \A y \in good : x <= y
              j == CHOOSE x \in reach(i) : \A y \in reach(i) : x <= y
          IN OffscreenText(s, j)

\* if (m?.[1] && /^\$\s*\d/.test(m[1].trim())) return m[1].trim()
PriceOrNull(capture) ==
  IF capture # Null /\ StartsLikePrice(Trim(capture)) THEN Trim(capture) ELSE Null

CoreBlockLength == 5000

\* html.match(/id=["']corePriceDisplay_desktop_feature_div["'][\s\S]{0,5000}/i)?.[0] || html
priceScope(markup) ==
  LET low == ToLowerCase(markup)
      at == {i \in 1..Len(markup) : AttrAt(low, i, "id", "corepricedisplay_desktop_feature_div")}
  IN IF at = {} THEN markup
     ELSE LET i == CHOOSE x \in at : \A y \in at : x <= y
          IN Slice(markup, i - 1,
                   i - 1 + AttrLen("id", "corepricedisplay_desktop_feature_div") + CoreBlockLength)

LiteralStarts(low, lit) == {i \in 1..Len(low) : MatchAt(low, i, lit)}

PriceToPayGap == 1200

ApexGap == 2000

ApexAltGap == 3500

\* scope.match(/priceToPay[\s\S]{0,1200}?class=["']a-offscreen["']...</i)
priceToPayCapture(scope) ==
  LazyOffscreen(scope, ToLowerCase(scope), LiteralStarts(ToLowerCase(scope), "pricetopay"),
                Len("pricetopay"), PriceToPayGap)

\* html.match(/apexPriceToPay[\s\S]{0,2000}?class=["']a-offscreen["']...</i)
apexPriceCapture(markup) ==
  LazyOffscreen(markup, ToLowerCase(markup), LiteralStarts(ToLowerCase(markup), "apexpricetopay"),
                Len("apexpricetopay"), ApexGap)

\* html.match(/id=["']apexPriceToPay["'][\s\S]{0,3500}?class=["']a-offscreen["']...</i)
apexPriceAltCapture(markup) ==
  LazyOffscreen(markup, ToLowerCase(markup),
                {i \in 1..Len(markup) : AttrAt(ToLowerCase(markup), i, "id", "apexpricetopay")},
                AttrLen("id", "apexpricetopay"), ApexAltGap)

\* the matches of the a-offscreen pattern from position from on, as re.exec finds
\* them one after the other: <<[index, text], ...>>
RECURSIVE OffscreenMatches(_, _, _)
OffscreenMatches(s, low, from) ==
  LET hits == {j \in from..Len(s) : OffscreenAt(s, low, j)}
  IN IF hits = {} THEN <<>>
     ELSE LET j == CHOOSE x \in hits : \A y \in hits : x <= y
          IN <<[index |-> j, text |-> Trim(OffscreenText(s, j))]>>
             \o OffscreenMatches(s, low, TagCapture(s, j + OffscreenAttrLen).last + 1)

ScanContextBefore == 80

ScanContextAfter == 220

UnitMarkers == {"/ounce", "/ oz", "/oz", "per ounce"}

ListPriceMarkers == {"list price", "was:", "a-text-price", "price was"}

\* \(\s*(\$\s*\d[\d,]*\.?\d{0,2})\s*\/\s*ounce matches at position p of ctx
UnitPriceAt(ctx, p) ==
  /\ MatchAt(ctx, p, "(")
  /\ PriceRunEnd(ctx, SkipWs(ctx, p + 1)) # 0
  /\ LET e == PriceRunEnd(ctx, SkipWs(ctx, p + 1))
         slash == SkipWs(ctx, e + 1)
     IN MatchAt(ctx, slash, "/") /\ MatchAt(ctx, SkipWs(ctx, slash + 1), "ounce")

\* unit?.[1] with whitespace removed, Null when the pattern does not match
unitPriceText(ctx) ==
  LET at == {p \in 1..Len(ctx) : UnitPriceAt(ctx, p)}
  IN IF at = {} THEN Null
     ELSE LET p == CHOOSE x \in at : \A y \in at : x <= y
              b == SkipWs(ctx, p + 1)
          IN Without(SubSeq(ctx, b, PriceRunEnd(ctx, b)), {" ", "\n", "\t"})

\* the text is the unit price the context shows: ( $1.33 / ounce)
IsUnitPrice(text, ctx, unit) ==
  /\ \E u \in UnitMarkers : Includes(ctx, u)
  /\ unit # Null
  /\ unit = Without(text, {" ", "\n", "\t"})

\* a match with text and context ctx is pushed to priceCandidates
ScanValueKept(text, ctx) ==
  /\ StartsLikePrice(text)
  /\ numericOf(text) # NaN
  /\ ~IsUnitPrice(text, ctx, unitPriceText(ctx))
  /\ ~\E w \in ListPriceMarkers : Includes(ctx, w)

\* the match m of the scan is pushed to priceCandidates
ScanCandidateKept(scope, low, m) ==
  ScanValueKept(m.text, Slice(low, m.index - 1 - ScanContextBefore, m.index - 1 + ScanContextAfter))

\* kept.sort((a, b) => b.numeric - a.numeric)[0].text, Null when empty: the sort is
\* stable, so the first of the highest comes first
HighestPrice(kept) ==
  IF kept = <<>> THEN Null
  ELSE kept[CHOOSE n \in DOMAIN kept :
              /\ \A k \in DOMAIN kept : numericOf(kept[k].text) <= numericOf(kept[n].text)
              /\ \A k \in 1..(n - 1) : numericOf(kept[k].text) < numericOf(kept[n].text)].text

ScanKept(scope, low) ==
  SelectSeq(OffscreenMatches(scope, low, 1), LAMBDA m : ScanCandidateKept(scope, low, m))

\* the a-offscreen scan of the scope: the highest of priceCandidates
scanOffscreenPrice(scope) == HighestPrice(ScanKept(scope, ToLowerCase(scope)))

PriceBlockIds == {"priceblock_ourprice", "priceblock_dealprice", "priceblock_saleprice"}

\* /id=["']priceblock_(?:ourprice|dealprice|saleprice)["'][^>]*>\s*([^<\s][^<]{0,20})\s*</i:
\* the capture of the leftmost match, Null for none
priceBlockCapture(s) ==
  LET low == ToLowerCase(s)
      at == {j \in 1..Len(s) :
               \E id \in PriceBlockIds :
                 AttrAt(low, j, "id", id) /\ TagCapture(s, j + AttrLen("id", id)).ok}
  IN IF at = {} THEN Null
     ELSE LET j == CHOOSE x \in at : \A y \in at : x <= y
              id == CHOOSE x \in PriceBlockIds : AttrAt(low, j, "id", x)
          IN TagCapture(s, j + AttrLen("id", id)).text

WholeFracGap == 120

\* class=["']a-price-whole["'][^>]*>\s*([0-9][0-9,\.]*)\s*<\/span> matched at position
\* j: [ok, text, next] with next the position after "</span>"
PriceWholeAt(s, low, j) ==
  LET gt == NextChar(s, j + AttrLen("class", "a-price-whole"), ">")
      a == SkipWs(s, gt + 1)
      e == RunEnd(s, a, DigitChars \cup {",", "."})
      close == SkipWs(s, e + 1)
  IN IF /\ AttrAt(low, j, "class", "a-price-whole")
        /\ gt # 0 /\ a <= Len(s) /\ IsDigit(CharAt(s, a))
        /\ MatchAt(low, close, "</span>")
     THEN [ok |-> TRUE, text |-> SubSeq(s, a, e), next |-> close + Len("</span>")]
     ELSE [ok |-> FALSE, text |-> "", next |-> 0]

\* class=["']a-price-fraction["'][^>]*>\s*([0-9]{2})\s*<\/span> matched at position j
PriceFractionAt(s, low, j) ==
  LET gt == NextChar(s, j + AttrLen("class", "a-price-fraction"), ">")
      a == SkipWs(s, gt + 1)
  IN IF /\ AttrAt(low, j, "class", "a-price-fraction")
        /\ gt # 0 /\ a + 1 <= Len(s) /\ IsDigit(CharAt(s, a)) /\ IsDigit(CharAt(s, a + 1))
        /\ MatchAt(low, SkipWs(s, a + 2), "</span>")
     THEN [ok |-> TRUE, text |-> SubSeq(s, a, a + 1)]
     ELSE [ok |-> FALSE, text |-> ""]

\* `$${whole.replace(/,/g, "")}.${fraction}` of the leftmost whole + fraction pair,
\* Null for none
wholeFractionPrice(s) ==
  LET low == ToLowerCase(s)
      fracAfter(j) == {k \in PriceWholeAt(s, low, j).next..Len(s) :
                         /\ k <= PriceWholeAt(s, low, j).next + WholeFracGap
                         /\ PriceFractionAt(s, low, k).ok}
      at == {j \in 1..Len(s) : PriceWholeAt(s, low, j).ok /\ fracAfter(j) # {}}
  IN IF at = {} THEN Null
     ELSE LET j == CHOOSE x \in at : \A y \in at : x <= y
              k == CHOOSE x \in fracAfter(j) : \A y \in fracAfter(j) : x <= y
          IN "$" \o Without(PriceWholeAt(s, low, j).text, {","}) \o "."
             \o PriceFractionAt(s, low, k).text

\* m[1].trim() of a capture, Null for no match
TrimOrNull(capture) == IF capture = Null THEN Null ELSE Trim(capture)

\* extractPriceFromHtml after the JSON strategy found nothing
markupPrice(markup, scope) ==
  OrElse(PriceOrNull(priceToPayCapture(scope)),
    OrElse(PriceOrNull(apexPriceCapture(markup)),
      OrElse(PriceOrNull(apexPriceAltCapture(markup)),
        OrElse(scanOffscreenPrice(scope),
          OrElse(TrimOrNull(priceBlockCapture(scope)), wholeFractionPrice(scope))))))

extractPriceFromHtml(markup) ==
  IF markup = "" THEN Null
  ELSE IF isInterstitial(markup) THEN Null
  ELSE OrElse(jsonPriceToPay(markup), markupPrice(markup, priceScope(markup)))

(***************************************************************************)
(* extractPriceFromMobileHtml.                                             *)
(***************************************************************************)
\* /id=["']ID["'][^>]*>\s*([^<\s][^<]{0,20})\s*</i for the ids of a set: the capture
\* of the leftmost match, Null for none
idCapture(s, ids) ==
  LET low == ToLowerCase(s)
      at == {j \in 1..Len(s) :
               \E id \in ids : AttrAt(low, j, "id", id) /\ TagCapture(s, j + AttrLen("id", id)).ok}
  IN IF at = {} THEN Null
     ELSE LET j == CHOOSE x \in at : \A y \in at : x <= y
              id == CHOOSE x \in ids : AttrAt(low, j, "id", x)
          IN TagCapture(s, j + AttrLen("id", id)).text

MobileContextBefore == 120

MobileContextAfter == 240

MobileSkipWords ==
  {"coupon", "save ", "save$", "savings", "discount", "promo", "promotion", "off",
   "/ounce", "per ounce", "/oz", "/ oz"}

\* the match of /\$\s*\d[\d,]*\.?\d{0,2}/g at position i is returned by the generic scan
MobileDollarKept(s, low, i) ==
  LET text == Trim(SubSeq(s, i, PriceRunEnd(s, i)))
      ctx == Slice(low, i - 1 - MobileContextBefore, i - 1 + MobileContextAfter)
  IN /\ numericOf(text) # NaN
     /\ numericOf(text) >= PriceFloor * NumericScale
     /\ ~\E w \in MobileSkipWords : Includes(ctx, w)

\* the generic scan: the first $-amount of at least 5 without coupon or unit context
mobileDollarScan(s) ==
  LET low == ToLowerCase(s)
      at == {i \in 1..Len(s) : PriceRunEnd(s, i) # 0 /\ MobileDollarKept(s, low, i)}
  IN IF at = {} THEN Null
     ELSE LET i == CHOOSE x \in at : \A y \in at : x <= y
          IN Trim(SubSeq(s, i, PriceRunEnd(s, i)))

\* the third pattern of the list (buyBoxInner) has no capture group, so m[1] is
\* undefined and it never returns
extractPriceFromMobileHtml(markup) ==
  IF markup = "" THEN Null
  ELSE IF isInterstitial(markup) THEN Null
  ELSE IF PriceOrNull(idCapture(markup, PriceBlockIds)) # Null
  THEN PriceOrNull(idCapture(markup, PriceBlockIds))
  ELSE IF PriceOrNull(idCapture(markup, {"newbuyboxprice"})) # Null
  THEN PriceOrNull(idCapture(markup, {"newbuyboxprice"}))
  ELSE mobileDollarScan(markup)

(***************************************************************************)
(* extractRatingReviewFromHtml.                                            *)
(***************************************************************************)
ReviewBlockLength == 2500

\* html.match(/id=["']averageCustomerReviews["'][\s\S]{0,2500}/i)?.[0] || html
reviewScope(markup) ==
  LET low == ToLowerCase(markup)
      at == {i \in 1..Len(markup) : AttrAt(low, i, "id", "averagecustomerreviews")}
  IN IF at = {} THEN markup
     ELSE LET i == CHOOSE x \in at : \A y \in at : x <= y
          IN Slice(markup, i - 1,
                   i - 1 + AttrLen("id", "averagecustomerreviews") + ReviewBlockLength)

\* the end of [0-9]+(?:\.[0-9]+)? matched greedily at position i, 0 for no match
DecimalEnd(s, i) ==
  IF i > Len(s) \/ ~IsDigit(CharAt(s, i)) THEN 0
  ELSE LET e == RunEnd(s, i, DigitChars)
       IN IF e + 2 <= Len(s) /\ CharAt(s, e + 1) = "." /\ IsDigit(CharAt(s, e + 2))
          THEN RunEnd(s, e + 2, DigitChars)
          ELSE e

\* \s*out of\s*5\s*stars stands at position p of low
OutOfFiveAt(low, p) ==
  LET a == SkipWs(low, p)
      b == SkipWs(low, a + Len("out of"))
      c == SkipWs(low, b + 1)
  IN MatchAt(low, a, "out of") /\ MatchAt(low, b, "5") /\ MatchAt(low, c, "stars")

\* the number captured by /([0-9]+(?:\.[0-9]+)?)\s*out of\s*5\s*stars/i, None for no match
ratingOf(scope) ==
  LET low == ToLowerCase(scope)
      at == {i \in 1..Len(scope) : DecimalEnd(scope, i) # 0 /\ OutOfFiveAt(low, DecimalEnd(scope, i) + 1)}
  IN IF at = {} THEN None
     ELSE LET i == CHOOSE x \in at : \A y \in at : x <= y
          IN Some(NumberOf(SubSeq(scope, i, DecimalEnd(scope, i))))

IsWordChar(c) == IsAlnum(c) \/ c = "_"

\* \s+(?:global\s+ratings|ratings|rating) stands at position p of low: the position
\* after it, 0 for no match; boundary is TRUE for the pattern that ends in \b and
\* FALSE for the one that ends in \s*<
RatingsWordEnd(low, p, boundary) ==
  LET a == SkipWs(low, p)
      g == SkipWs(low, a + Len("global"))
      ends == {e \in {IF MatchAt(low, a, "global") /\ g > a + Len("global") /\ MatchAt(low, g, "ratings")
                      THEN g + Len("ratings") ELSE 0,
                      IF MatchAt(low, a, "ratings") THEN a + Len("ratings") ELSE 0,
                      IF MatchAt(low, a, "rating") THEN a + Len("rating") ELSE 0} :
                 /\ e # 0
                 /\ IF boundary THEN e > Len(low) \/ ~IsWordChar(CharAt(low, e))
                    ELSE MatchAt(low, SkipWs(low, e), "<")}
  IN IF a = p \/ ends = {} THEN 0 ELSE CHOOSE e \in ends : TRUE

\* Number(capture.replace(/,/g, ""))
countOf(capture) == DigitsToNat(Without(capture, {","}))

\* /id=["']acrCustomerReviewText["'][^>]*>\s*([0-9,]+)\s+(?:...)\s*</i
acrReviewCount(scope) ==
  LET low == ToLowerCase(scope)
      numAt(j) == SkipWs(scope, NextChar(scope, j + AttrLen("id", "acrcustomerreviewtext"), ">") + 1)
      ok(j) == /\ AttrAt(low, j, "id", "acrcustomerreviewtext")
               /\ NextChar(scope, j + AttrLen("id", "acrcustomerreviewtext"), ">") # 0
               /\ numAt(j) <= Len(scope)
               /\ CharAt(scope, numAt(j)) \in DigitChars \cup {","}
               /\ RatingsWordEnd(low, RunEnd(scope, numAt(j), DigitChars \cup {","}) + 1, FALSE) # 0
      at == {j \in 1..Len(scope) : ok(j)}
  IN IF at = {} THEN None
     ELSE LET j == CHOOSE x \in at : \A y \in at : x <= y
          IN Some(countOf(SubSeq(scope, numAt(j), RunEnd(scope, numAt(j), DigitChars \cup {","}))))

\* /([0-9,]+)\s+(?:global\s+ratings|ratings|rating)\b/i
fallbackReviewCount(scope) ==
  LET low == ToLowerCase(scope)
      ok(i) == /\ CharAt(scope, i) \in DigitChars \cup {","}
               /\ RatingsWordEnd(low, RunEnd(scope, i, DigitChars \cup {","}) + 1, TRUE) # 0
      at == {i \in 1..Len(scope) : ok(i)}
  IN IF at = {} THEN None
     ELSE LET i == CHOOSE x \in at : \A y \in at : x <= y
          IN Some(countOf(SubSeq(scope, i, RunEnd(scope, i, DigitChars \cup {","}))))

NoRatingReview == [rating |-> None, reviewCount |-> None]

ratingReviewIn(scope) ==
  [rating |-> ratingOf(scope),
   reviewCount |-> IF acrReviewCount(scope) # None THEN acrReviewCount(scope)
                   ELSE fallbackReviewCount(scope)]

extractRatingReviewFromHtml(markup) ==
  IF markup = "" THEN NoRatingReview
  ELSE IF isInterstitial(markup) THEN NoRatingReview
  ELSE ratingReviewIn(reviewScope(markup))

(***************************************************************************)
(* extractImageUrlFromHtml.  The modelled markup holds no                  *)
(* data-a-dynamic-image attribute, so the first two patterns of the list   *)
(* (the JSON image map) never match and are left out.                      *)
(***************************************************************************)
\* s with every occurrence of from replaced by to
RECURSIVE ReplaceAll(_, _, _)
ReplaceAll(s, from, to) ==
  IF IndexOf(s, from) = 0 THEN s
  ELSE SubSeq(s, 1, IndexOf(s, from) - 1) \o to
       \o ReplaceAll(SubSeq(s, IndexOf(s, from) + Len(from), Len(s)), from, to)

\* raw.replace(/\\\//g, "/")
UnescapeSlashes(raw) == ReplaceAll(raw, "\\/", "/")

\* the position after https?: (and after \/\/ when escaped) of a URL that starts at
\* position p, 0 when none starts there
UrlBodyStart(low, p, escaped) ==
  LET c == IF MatchAt(low, p + 4, "s") THEN p + 5 ELSE p + 4
  IN IF ~MatchAt(low, p, "http") \/ ~MatchAt(low, c, ":") THEN 0
     ELSE IF ~escaped THEN c + 1
     ELSE IF MatchAt(low, c + 1, "\\/\\/") THEN c + 5
     ELSE 0

\* q(https?:[^q]+)q with the opening quote q at position b: the capture, Null for none
QuotedUrlAt(s, low, b, q, escaped) ==
  LET body == UrlBodyStart(low, b + 1, escaped)
      close == NextChar(s, body, q)
  IN IF ~MatchAt(s, b, q) \/ body = 0 \/ close = 0 \/ close = body THEN Null
     ELSE SubSeq(s, b + 1, close - 1)

\* KEY\s*SEP\s*q(URL)q at position i: the capture, Null for none
KeyUrlAt(s, low, i, key, sep, q, escaped) ==
  LET a == SkipWs(s, i + Len(key))
      b == SkipWs(s, a + 1)
  IN IF MatchAt(low, i, key) /\ MatchAt(s, a, sep) THEN QuotedUrlAt(s, low, b, q, escaped)
     ELSE Null

\* the capture of the leftmost match of KEY\s*SEP\s*q(URL)q, Null for none
keyUrl(s, key, sep, q, escaped) ==
  LET low == ToLowerCase(s)
      at == {i \in 1..Len(s) : KeyUrlAt(s, low, i, key, sep, q, escaped) # Null}
  IN IF at = {} THEN Null
     ELSE KeyUrlAt(s, low, CHOOSE x \in at : \A y \in at : x <= y, key, sep, q, escaped)

\* /id=qlandingImageq[^>]+src=q(https?:[^q]+)q/i: the capture, Null for none
landingImageUrl(s, q) ==
  LET low == ToLowerCase(s)
      lit == "id=" \o q \o "landingimage" \o q
      srcs(i) == {k \in (i + Len(lit) + 1)..Len(s) :
                    /\ NextChar(s, i + Len(lit), ">") \in {0} \cup (k..Len(s))
                    /\ MatchAt(low, k, "src=")
                    /\ QuotedUrlAt(s, low, k + 4, q, FALSE) # Null}
      at == {i \in 1..Len(s) : MatchAt(low, i, lit) /\ srcs(i) # {}}
  IN IF at = {} THEN Null
     ELSE LET i == CHOOSE x \in at : \A y \in at : x <= y
              k == CHOOSE x \in srcs(i) : \A y \in srcs(i) : y <= x
          IN QuotedUrlAt(s, low, k + 4, q, FALSE)

JsonImageKeys ==
  <<"\"landingimage\"", "\"mainimage\"", "\"hires\"", "\"large\"", "\"mainurl\"", "\"displayurl\"">>

\* the captures of the patterns of the list, in list order
imagePatternCaptures(s) ==
  <<keyUrl(s, "data-old-hires", "=", "\"", FALSE), keyUrl(s, "data-old-hires", "=", "'", FALSE),
    landingImageUrl(s, "\""), landingImageUrl(s, "'")>>
  \o [n \in DOMAIN JsonImageKeys |-> keyUrl(s, JsonImageKeys[n], ":", "\"", TRUE)]

\* the first element of a sequence that is not Null, Null when all are
FirstNonNull(seq) ==
  IF \A n \in DOMAIN seq : seq[n] = Null THEN Null
  ELSE seq[CHOOSE n \in DOMAIN seq : seq[n] # Null /\ \A k \in 1..(n - 1) : seq[k] = Null]

ImageExtensions == {".jpg", ".jpeg", ".png", ".webp"}

CdnPrefix == "://m.media-amazon.com/images/i/"

\* /https?:\/\/m\.media-amazon\.com\/images\/I\/[^\"'\s]+\.(?:jpg|jpeg|png|webp)/i at
\* position i: the position of the last character of the match, 0 for none
CdnUrlEnd(s, low, i) ==
  LET c == IF MatchAt(low, i + 4, "s") THEN i + 5 ELSE i + 4
      p == c + Len(CdnPrefix)
      stop == RunEnd(s, p, {CharAt(s, j) : j \in 1..Len(s)} \ {"\"", "'", " ", "\n", "\t"})
      ends == {e \in (p + 1)..stop :
                 \E x \in ImageExtensions : e - Len(x) + 1 > p /\ MatchAt(low, e - Len(x) + 1, x)}
  IN IF ~MatchAt(low, i, "http") \/ ~MatchAt(low, c, CdnPrefix) \/ ends = {} THEN 0
     ELSE CHOOSE e \in ends : \A y \in ends : y <= e

cdnImageUrl(s) ==
  LET low == ToLowerCase(s)
      at == {i \in 1..Len(s) : CdnUrlEnd(s, low, i) # 0}
  IN IF at = {} THEN Null
     ELSE LET i == CHOOSE x \in at : \A y \in at : x <= y
          IN SubSeq(s, i, CdnUrlEnd(s, low, i))

\* (?:property|name)=["']NAME["'] stands at position k
MetaNameAt(low, k, name) == AttrAt(low, k, "property", name) \/ AttrAt(low, k, "name", name)

MetaNameLen(low, k, name) ==
  IF AttrAt(low, k, "property", name) THEN AttrLen("property", name) ELSE AttrLen("name", name)

\* content=["']([^"']+)["'] stands at position c: the position of the closing quote,
\* 0 for none
MetaContentEnd(s, low, c) ==
  LET from == c + Len("content=") + 1
      ends == {e \in from..Len(s) : IsQuote(CharAt(s, e))}
      e == CHOOSE x \in ends : \A y \in ends : x <= y
  IN IF ~MatchAt(low, c, "content=") \/ from > Len(s) \/ ~IsQuote(CharAt(s, from - 1))
        \/ ends = {} THEN 0
     ELSE IF e = from THEN 0 ELSE e

MetaContentText(s, low, c) == SubSeq(s, c + Len("content=") + 1, MetaContentEnd(s, low, c) - 1)

\* no ">" stands between positions a and b (both included)
NoGt(s, a, b) == \A j \in a..b : CharAt(s, j) # ">"

\* <meta[^>]+(?:property|name)=["']NAME["'][^>]+content=["']([^"']+)["'][^>]*>
metaNameFirst(s, name) ==
  LET low == ToLowerCase(s)
      contents(i) ==
        {c \in (i + 7)..Len(s) :
           /\ MetaContentEnd(s, low, c) # 0
           /\ NextChar(s, MetaContentEnd(s, low, c) + 1, ">") # 0
           /\ NoGt(s, i + 5, c - 1)
           /\ \E k \in (i + 6)..(c - 2) :
                MetaNameAt(low, k, name) /\ k + MetaNameLen(low, k, name) < c}
      at == {i \in 1..Len(s) : MatchAt(low, i, "<meta") /\ contents(i) # {}}
  IN IF at = {} THEN Null
     ELSE LET i == CHOOSE x \in at : \A y \in at : x <= y
          IN MetaContentText(s, low, CHOOSE c \in contents(i) : \A y \in contents(i) : y <= c)

\* <meta[^>]+content=["']([^"']+)["'][^>]+(?:property|name)=["']NAME["'][^>]*>
metaContentFirst(s, name) ==
  LET low == ToLowerCase(s)
      contents(i) ==
        {c \in (i + 6)..Len(s) :
           /\ MetaContentEnd(s, low, c) # 0
           /\ NoGt(s, i + 5, c - 1)
           /\ \E k \in (MetaContentEnd(s, low, c) + 2)..Len(s) :
                /\ MetaNameAt(low, k, name)
                /\ NoGt(s, MetaContentEnd(s, low, c) + 1, k - 1)
                /\ NextChar(s, k + MetaNameLen(low, k, name), ">") # 0}
      at == {i \in 1..Len(s) : MatchAt(low, i, "<meta") /\ contents(i) # {}}
  IN IF at = {} THEN Null
     ELSE LET i == CHOOSE x \in at : \A y \in at : x <= y
          IN MetaContentText(s, low, CHOOSE c \in contents(i) : \A y \in contents(i) : y <= c)

MetaImageNames == <<"og:image:secure_url", "og:image", "twitter:image">>

\* the loop over metaNames: m1?.[1], then m2?.[1], for each name in turn
metaImageUrl(s) ==
  FirstNonNull([n \in 1..(2 * Len(MetaImageNames)) |->
                  IF n % 2 = 1 THEN metaNameFirst(s, MetaImageNames[(n + 1) \div 2])
                  ELSE metaContentFirst(s, MetaImageNames[n \div 2])])

extractImageUrlFromHtml(markup) ==
  IF markup = "" THEN Null
  ELSE IF isInterstitial(markup) THEN Null
  ELSE IF FirstNonNull(imagePatternCaptures(markup)) # Null
  THEN UnescapeSlashes(FirstNonNull(imagePatternCaptures(markup)))
  ELSE IF cdnImageUrl(markup) # Null THEN cdnImageUrl(markup)
  ELSE metaImageUrl(markup)

(***************************************************************************)
(* FAIRFINDZ_RESOLVE_PRODUCT_META.                                         *)
(***************************************************************************)
\* /(^|\.)amazon\.com$/i.test(u.hostname) with an http(s) protocol
isAmazonUrl(urlString) ==
  /\ UrlParses(urlString)
  /\ UrlHostname(urlString) = "amazon.com" \/ EndsWith(UrlHostname(urlString), ".amazon.com")

\* \b(?:dp|gp\/product)\/([A-Z0-9]{10})\b matched at position i of path with the
\* alternative prefix
PathAsinAt(path, i, prefix) ==
  /\ i + Len(prefix) + 9 <= Len(path)
  /\ i = 1 \/ ~IsWordChar(CharAt(path, i - 1))
  /\ ToLowerCase(SubSeq(path, i, i + Len(prefix) - 1)) = prefix
  /\ \A k \in (i + Len(prefix))..(i + Len(prefix) + 9) : IsAlnum(CharAt(path, k))
  /\ i + Len(prefix) + 10 > Len(path) \/ ~IsWordChar(CharAt(path, i + Len(prefix) + 10))

AsinPrefixes == {"dp/", "gp/product/"}

extractAsinFromUrl(urlString) ==
  IF ~UrlParses(urlString) THEN Null
  ELSE LET path == UrlPathname(urlString)
           at == {i \in 1..Len(path) : \E x \in AsinPrefixes : PathAsinAt(path, i, x)}
       IN IF at = {} THEN Null
          ELSE LET i == CHOOSE x \in at : \A y \in at : x <= y
                   x == CHOOSE y \in AsinPrefixes : PathAsinAt(path, i, y)
               IN SubSeq(path, i + Len(x), i + Len(x) + 9)

\* the response of a fetch: ok or not, and the text of its body
Response(ok, text) == [ok |-> ok, text |-> text]

NoMeta == [rating |-> None, reviewCount |-> None, priceText |-> Null]

\* !Number.isNaN(numeric) && numeric > 0 && numeric < 5
IsUnitLike(priceText) ==
  /\ numericOf(priceText) # NaN
  /\ numericOf(priceText) > 0
  /\ numericOf(priceText) < PriceFloor * NumericScale

\* if (typeof priceText === "string" && !isPlausibleAmazonPriceText(priceText)) priceText = null
PlausibleOrNull(priceText) ==
  IF priceText # Null /\ ~isPlausibleAmazonPriceText(priceText) THEN Null ELSE priceText

\* a || b for strings: the empty string is falsy
OrElseText(a, b) == IF a \notin {Null, ""} THEN a ELSE b

\* extractPriceFromMobileHtml(mobileHtml) || extractPriceFromHtml(mobileHtml)
mobilePriceOf(mobileHtml) ==
  OrElseText(extractPriceFromMobileHtml(mobileHtml), extractPriceFromHtml(mobileHtml))

\* validatedMobilePrice && !Number.isNaN(mobileNumeric) && mobileNumeric >= 5
\*   ? validatedMobilePrice : priceText
replacedBy(priceText, mobilePrice) ==
  IF /\ mobilePrice \notin {Null, ""}
     /\ isPlausibleAmazonPriceText(mobilePrice)
     /\ numericOf(mobilePrice) # NaN
     /\ numericOf(mobilePrice) >= PriceFloor * NumericScale
  THEN mobilePrice
  ELSE priceText

\* priceText after the mobile fallback; a fetch of the mobile page that throws
\* leaves it as a response that is not ok does
afterMobileFallback(priceText, asin, mobileRes) ==
  IF priceText = Null \/ ~IsUnitLike(priceText) \/ asin = Null \/ ~mobileRes.ok THEN priceText
  ELSE replacedBy(priceText, mobilePriceOf(mobileRes.text))

\* the last filter: a unit-like price is discarded; priceText || null
finalPrice(priceText) ==
  IF priceText = Null \/ priceText = "" \/ IsUnitLike(priceText) THEN Null ELSE priceText

\* sendResponse({ rating, reviewCount, priceText: priceText || null })
MetaResponse(ratingReview, priceText) ==
  [rating |-> ratingReview.rating, reviewCount |-> ratingReview.reviewCount,
   priceText |-> priceText]

\* the response the handler sends for message.productUrl, given the responses of
\* the two fetches
resolveProductMeta(productUrl, res, mobileRes) ==
  IF productUrl = Null \/ productUrl = "" \/ ~isAmazonUrl(productUrl) THEN NoMeta
  ELSE IF ~res.ok THEN NoMeta
  ELSE MetaResponse(extractRatingReviewFromHtml(res.text),
                    finalPrice(afterMobileFallback(PlausibleOrNull(extractPriceFromHtml(res.text)),
                                                   extractAsinFromUrl(productUrl), mobileRes)))

(***************************************************************************)
(* FAIRFINDZ_RESOLVE_PRODUCT_IMAGE.                                        *)
(***************************************************************************)
\* sendResponse({ imageUrl }) of the handler for message.productUrl, given the
\* response of the fetch; a fetch that throws answers as one that is not ok does
resolveProductImage(productUrl, res) ==
  IF productUrl = Null \/ productUrl = "" \/ ~isAmazonUrl(productUrl) THEN Null
  ELSE IF ~res.ok THEN Null
  ELSE OrElseText(extractImageUrlFromHtml(res.text), Null)

\* isValidAmazonImageUrl (content script): the URL parses, its protocol is https: and
\* its hostname matches /(^|\.)m\.media-amazon\.com$/i
isValidAmazonImageUrl(urlString) ==
  /\ StartsWith(ToLowerCase(urlString), "https://")
  /\ \/ UrlHostname(urlString) = "m.media-amazon.com"
     \/ EndsWith(UrlHostname(urlString), ".m.media-amazon.com")

(***************************************************************************)
(* resolveAmazonOgImage (content script).  The document the parser builds  *)
(* is read off the markup: an element per <meta ...> tag, its attributes   *)
(* those written name="value" or name='value' in the tag.                  *)
(***************************************************************************)
\* the positions where a meta tag starts, in document order
MetaTagStarts(s) ==
  LET low == ToLowerCase(s)
  IN Ascending({i \in 1..Len(s) :
                  MatchAt(low, i, "<meta") /\ IsWs(CharAt(s, i + 5)) /\ NextChar(s, i, ">") # 0})

\* getAttribute(name) of the tag that starts at position i, Null when absent
AttributeOf(s, i, name) ==
  LET low == ToLowerCase(s)
      close == NextChar(s, i, ">")
      at == {k \in (i + 6)..close :
               /\ IsWs(CharAt(s, k - 1))
               /\ MatchAt(low, k, name \o "=")
               /\ IsQuote(CharAt(s, k + Len(name) + 1))
               /\ NextChar(s, k + Len(name) + 2, CharAt(s, k + Len(name) + 1)) \in 1..close}
  IN IF at = {} THEN Null
     ELSE LET k == CHOOSE x \in at : \A y \in at : x <= y
          IN SubSeq(s, k + Len(name) + 2,
                    NextChar(s, k + Len(name) + 2, CharAt(s, k + Len(name) + 1)) - 1)

\* doc.querySelector('meta[attr="value"]')?.getAttribute("content")
metaContent(s, attr, value) ==
  LET tags == MetaTagStarts(s)
      hits == {n \in DOMAIN tags : AttributeOf(s, tags[n], attr) = value}
  IN IF hits = {} THEN Null
     ELSE AttributeOf(s, tags[CHOOSE x \in hits : \A y \in hits : x <= y], "content")

metaSelectors ==
  <<[attr |-> "property", value |-> "og:image:secure_url"],
    [attr |-> "property", value |-> "og:image"],
    [attr |-> "name", value |-> "og:image"],
    [attr |-> "name", value |-> "twitter:image"],
    [attr |-> "property", value |-> "twitter:image"]>>

\* the content of the first selector whose element has a non-empty one
FirstMetaContent(s) ==
  LET found == {n \in DOMAIN metaSelectors :
                  metaContent(s, metaSelectors[n].attr, metaSelectors[n].value) \notin {Null, ""}}
  IN IF found = {} THEN Null
     ELSE LET n == CHOOSE x \in found : \A y \in found : x <= y
          IN metaContent(s, metaSelectors[n].attr, metaSelectors[n].value)

OgFallbackKeys == <<"\"hires\"", "\"large\"", "\"mainurl\"">>

\* the image URL for the response of the fetch of productUrl (no cached result)
resolveAmazonOgImage(res) ==
  IF ~res.ok THEN Null
  ELSE IF FirstMetaContent(res.text) # Null THEN FirstMetaContent(res.text)
  ELSE IF FirstNonNull([n \in DOMAIN OgFallbackKeys |->
                          keyUrl(res.text, OgFallbackKeys[n], ":", "\"", TRUE)]) # Null
  THEN UnescapeSlashes(FirstNonNull([n \in DOMAIN OgFallbackKeys |->
                                       keyUrl(res.text, OgFallbackKeys[n], ":", "\"", TRUE)]))
  ELSE Null

(***************************************************************************)
(* The background functions applied to drawn markup.                       *)
(***************************************************************************)
\* a price in the markup of the price-to-pay block
Offscreen(p) ==
  "<span class=\"priceToPay\"><span class=\"a-offscreen\">" \o p \o "</span></span>"

\* a price in the markup of the mobile page
PriceBlock(p) == "<span id=\"priceblock_ourprice\">" \o p \o "</span>"

\* JSON blobs with displayPrice values after a price-to-pay anchor
JsonUnitThenMain ==
  "{\"priceToPay\":{\"displayPrice\":\"$1.33\"},\"basisPrice\":{\"displayPrice\":\"$15.99\"}}"

JsonWholeThenCents ==
  "{\"apexPriceToPay\":{\"displayPrice\":\"$2.10\"},\"a\":{\"displayPrice\":\"$18\"},"
  \o "\"b\":{\"displayPrice\":\"$21.50\"}}"

JsonWholeOnly == "{\"priceToPay\":{\"displayPrice\":\"$18\"},\"b\":{\"displayPrice\":\"$20\"}}"

JsonCoupon ==
  "{\"priceToPay\":{\"label\":\"Save with coupon\",\"displayPrice\":\"$10.00\"},\"pad\":\"xxxxxxxxxxxxxxxxxxxxxxxxxxxxxxxxxxxxxxxxxxxxxxxxxxxxxxxxxxxxxxxxxxxxxxxxxxxxxxxxxxxxxxxxxxxxxxxxxxxxxxxxxxxxxxxxxxxxxxxxxxxxxxxxxxxxxxxxxxxxxxxxxxxxxxxxxxxxxxxxxxxxxxxxxx\","
  \o "\"displayPrice\":\"$24.99\"}"

JsonAllSmall == "{\"priceToPay\":{\"displayPrice\":\"$2.50\"}}"

JsonFragments == {JsonUnitThenMain, JsonWholeThenCents, JsonWholeOnly, JsonCoupon, JsonAllSmall}

PriceFragments ==
  {"", Offscreen("$15.99"), Offscreen("$0.00"), Offscreen("$1.33"), Offscreen("$18"),
   Offscreen("$ 15.99"), PriceBlock("$25.50"), JsonAllSmall \o Offscreen("$16.49")}
  \cup JsonFragments

ImageFragments ==
  {"", "<meta property=\"og:image\" content=\"https://m.media-amazon.com/images/I/71og.jpg\">",
   "<script>{\"hiRes\":\"https:\\/\\/m.media-amazon.com\\/images\\/I\\/81hi.jpg\"}</script>"}

RatingFragments ==
  {"", "<span>4.7 out of 5 stars</span><span id=\"acrCustomerReviewText\">1,234 ratings</span>"}

\* lines of an interstitial page, one per marker the guard looks for
MarkerFragments ==
  {"<h4>Type the characters you see in this image</h4>",
   "<p>Enter the characters you see below</p>",
   "<!-- To discuss Automated Access to Amazon data please contact us -->",
   "<title>Robot Check</title>",
   "<form action=\"/errors/validateCaptcha\">"}

ProductMarkups ==
  {i \o p \o r : i \in ImageFragments, p \in PriceFragments, r \in RatingFragments}

\* interstitial pages that also hold image-like, price-like and rating-like text
InterstitialMarkups ==
  {IF before THEN m \o b ELSE b \o m :
     m \in MarkerFragments, before \in BOOLEAN,
     b \in {i \o p \o r : i \in ImageFragments \ {""},
                          p \in {Offscreen("$15.99") \o PriceBlock("$25.50"), JsonUnitThenMain},
                          r \in RatingFragments \ {""}}}

\* product pages whose only image candidate is off the image host or not https, one
\* per strategy: meta tag, CDN pattern, single-URL attribute, JSON key
OffHostImageMarkups ==
  {"<meta property=\"og:image\" content=\"https://cdn.example.com/brand/logo.png\">",
   "<img src=\"http://m.media-amazon.com/images/I/71plain.jpg\">",
   "<img data-old-hires=\"https://images-na.ssl-images-amazon.com/images/I/81old.jpg\">",
   "<script>{\"large\":\"https:\\/\\/m.media-amazon.com.example.net\\/images\\/I\\/81.jpg\"}</script>"}

Markups == ProductMarkups \cup InterstitialMarkups \cup OffHostImageMarkups

MobileResponses ==
  {Response(FALSE, "")}
  \cup {Response(TRUE, m) : m \in {PriceBlock("$15.99"), PriceBlock("$18"), PriceBlock("$3.99"),
                                    "<title>Robot Check</title>" \o PriceBlock("$15.99"),
                                    Offscreen("$16.49")}}

ProductUrls ==
  {"", "https://www.amazon.com/dp/B0ABCDEFGH", "https://www.amazon.com/stores/page/B0",
   "https://example.com/dp/B0ABCDEFGH"}

PriceTexts ==
  {"$15.99", "$1,234.00", "$0.00", "$10", "$1,234", "10.00", "$ 15.99", " $15.99 ", "$1,2.00",
   "$.99", "$15.9", "$15.999", "", "USD 15.99", "$15.99 each", Null}

InitExtract ==
  /\ MatcherIdle
  /\ BadgeIdle
  /\ html \in Markups
  /\ callOut = None
  /\ LoaderIdle
  /\ InitAt(UrlS)

\* what a call was given besides html: the arguments and fetch outcomes it does not
\* have keep these values
NoArguments ==
  [productUrl |-> "", priceText |-> "", ok |-> TRUE, mobileRes |-> Response(FALSE, "")]

\* what a call returned: a text (Null for null), a verdict, or rating and reviewCount
Returned(text, accepted, rating, reviewCount) ==
  [text |-> text, accepted |-> accepted, rating |-> rating, reviewCount |-> reviewCount]

ReturnedText(text) == Returned(text, FALSE, None, None)

\* the call of fn with arguments args returned result
Called(fn, args, result) ==
  /\ callOut = None
  /\ callOut' = Some([fn |-> fn, args |-> args, result |-> result])
  /\ UNCHANGED <<page, catalog, scoreOut, matchOut, html, loadVars, badge, programVars, sent, changeCount>>

ExtractImageCall ==
  Called("extractImageUrlFromHtml", NoArguments, ReturnedText(extractImageUrlFromHtml(html)))

ExtractPriceCall ==
  Called("extractPriceFromHtml", NoArguments, ReturnedText(extractPriceFromHtml(html)))

ExtractMobilePriceCall ==
  Called("extractPriceFromMobileHtml", NoArguments,
         ReturnedText(extractPriceFromMobileHtml(html)))

ExtractRatingReviewCall ==
  Called("extractRatingReviewFromHtml", NoArguments,
         Returned(Null, FALSE, extractRatingReviewFromHtml(html).rating,
                  extractRatingReviewFromHtml(html).reviewCount))

\* resolveAmazonOgImage(productUrl): the fetch answers with html, ok or not
ResolveOgImageCall ==
  \E ok \in BOOLEAN :
    Called("resolveAmazonOgImage", [NoArguments EXCEPT !.ok = ok],
           ReturnedText(resolveAmazonOgImage(Response(ok, html))))

PlausibleCall ==
  \E t \in PriceTexts :
    Called("isPlausibleAmazonPriceText", [NoArguments EXCEPT !.priceText = t],
           Returned(Null, isPlausibleAmazonPriceText(t), None, None))

\* the response as the call record holds it
ReturnedMeta(response) ==
  Returned(response.priceText, FALSE, response.rating, response.reviewCount)

\* the FAIRFINDZ_RESOLVE_PRODUCT_META handler, from the message to sendResponse: the
\* fetch of the product URL answers with html
ResolveProductMeta ==
  \E u \in ProductUrls, ok \in BOOLEAN, mobileRes \in MobileResponses :
    Called("FAIRFINDZ_RESOLVE_PRODUCT_META",
           [NoArguments EXCEPT !.productUrl = u, !.ok = ok, !.mobileRes = mobileRes],
           ReturnedMeta(resolveProductMeta(u, Response(ok, html), mobileRes)))

\* the FAIRFINDZ_RESOLVE_PRODUCT_IMAGE handler, from the message to sendResponse: the
\* fetch of the product URL answers with html
ResolveProductImage ==
  \E u \in ProductUrls, ok \in BOOLEAN :
    Called("FAIRFINDZ_RESOLVE_PRODUCT_IMAGE",
           [NoArguments EXCEPT !.productUrl = u, !.ok = ok],
           ReturnedText(resolveProductImage(u, Response(ok, html))))

NextExtract ==
  \/ ExtractImageCall
  \/ ExtractPriceCall
  \/ ExtractMobilePriceCall
  \/ ExtractRatingReviewCall
  \/ ResolveOgImageCall
  \/ PlausibleCall
  \/ ResolveProductMeta
  \/ ResolveProductImage

SpecExtract == InitExtract /\ [][NextExtract]_vars

(***************************************************************************)
(* The catalog sources: loadSupabaseProducts, loadBusinessesProducts and   *)
(* validateBusinessesData.  A row carries the fields the load decides on:  *)
(* the identity fields and the two URLs; its other fields are well-formed. *)
(* Null stands for a field that is undefined or null.                      *)
(***************************************************************************)
Row(id, name, brand, category, productUrl, imageUrl) ==
  [id |-> id, name |-> name, brand |-> brand, category |-> category,
   productUrl |-> productUrl, imageUrl |-> imageUrl]

\* /^\/dp\/.../, /^\/gp\/product\/.../, /^\/gp\/aw\/d\/.../ or /\/dp\/.../ on the
\* pathname of a URL of amazon.com
isValidAmazonProductUrl(urlString) ==
  /\ urlString # Null
  /\ UrlParses(urlString)
  /\ \/ UrlHostname(urlString) = "amazon.com"
     \/ EndsWith(UrlHostname(urlString), ".amazon.com")
  /\ \/ AsinMatchAt(UrlPathname(urlString), "/dp/", 1, "/?")
     \/ AsinMatchAt(UrlPathname(urlString), "/gp/product/", 1, "/?")
     \/ AsinMatchAt(UrlPathname(urlString), "/gp/aw/d/", 1, "/?")
     \/ HasAsinMatch(UrlPathname(urlString), "/dp/", "/?")

\* String(v || "").trim()
TrimmedText(v) == IF v = Null THEN "" ELSE Trim(v)

\* the object loadSupabaseProducts maps a row to
mappedRow(r) ==
  Row(TrimmedText(r.id), TrimmedText(r.name), TrimmedText(r.brand), TrimmedText(r.category),
      TrimmedText(r.productUrl), TrimmedText(r.imageUrl))

\* p.id && p.name && p.brand && p.category && p.productUrl
hasIdentity(p) ==
  p.id # "" /\ p.name # "" /\ p.brand # "" /\ p.category # "" /\ p.productUrl # ""

\* rows.map(...).filter(...)
mapAndFilter(rows) == SelectSeq([i \in DOMAIN rows |-> mappedRow(rows[i])], hasIdentity)

Thrown == [threw |-> TRUE, products |-> <<>>]

Returns(products) == [threw |-> FALSE, products |-> products]

\* loadSupabaseProducts(): throws without the public configuration, when the fetch
\* throws and on a status that is not ok; [] for a body that is no array
loadSupabaseProducts(cfg, remote) ==
  IF ~cfg THEN Thrown
  ELSE IF remote.kind \in {"throws", "notOk"} THEN Thrown
  ELSE IF remote.kind = "notArray" THEN Returns(<<>>)
  ELSE Returns(mapAndFilter(remote.rows))

RequiredFields == {"id", "name", "brand", "category", "productUrl"}

\* the checks of validateBusinessesData on products[idx] that can throw
rowIsValid(products, idx) ==
  LET p == products[idx]
  IN /\ \A f \in RequiredFields : p[f] \notin {Null, ""}
     /\ \A j \in 1..(idx - 1) : products[j].id # p.id
     /\ Trim(p.category) # ""
     /\ p.imageUrl \in {Null, ""} \/ isValidAmazonImageUrl(p.imageUrl)
     /\ isValidAmazonProductUrl(p.productUrl)

\* products[idx] after the loop body: an optional field that was undefined is ""
withOptionalDefaults(p) == [p EXCEPT !.imageUrl = IF p.imageUrl = Null THEN "" ELSE p.imageUrl]

\* validateBusinessesData(data) for data.products
validateBusinessesData(products) ==
  IF \A idx \in DOMAIN products : rowIsValid(products, idx)
  THEN Returns([i \in DOMAIN products |-> withOptionalDefaults(products[i])])
  ELSE Thrown

\* loadBusinessesProducts(): throws when the fetch throws, on a status that is not ok,
\* on a body that is no object with a products array, and when validation throws
loadBusinessesProducts(static) ==
  IF static.kind # "rows" THEN Thrown ELSE validateBusinessesData(static.rows)

\* a check that takes any array the remote source returns, an empty one too
remoteDelivered_AnyArray(supabase) == ~supabase.threw

\* Array.isArray(supabaseProducts) && supabaseProducts.length
remoteDelivered(supabase) == ~supabase.threw /\ Len(supabase.products) > 0

\* the rows the sources can hold
RowOne == Row("1", "Ethiopian Espresso", "BLK Sip", "coffee",
              "https://www.amazon.com/dp/B00CATALG1", "https://m.media-amazon.com/images/I/1.jpg")

RowTwo == Row("2", " House Blend ", "Kahawa", "coffee",
              "https://www.amazon.com/gp/product/B00CATALG2?th=1", Null)

\* repeats the id of RowOne
RowRepeat == Row("1", "Soy Candle", "Ember", "candles",
                 "https://www.amazon.com/Soy-Candle/dp/B00CATALG4/", "")

RowNoBrand == Row("3", "Lavender Candle", Null, "candles",
                  "https://www.amazon.com/dp/B00CATALG3", "")

RowBlankName == Row("5", "  ", "Glow", "candles", "https://www.amazon.com/dp/B00CATALG5", "")

RowOtherHost == Row("6", "Daily Greens", "Vital", "wellness",
                    "https://www.example.com/dp/B00CATALG6", "")

RowNoItem == Row("7", "Marine Collagen", "Oshun", "supplements",
                 "https://www.amazon.com/s?k=collagen", "")

Rows == {RowOne, RowTwo, RowRepeat, RowNoBrand, RowBlankName, RowOtherHost, RowNoItem}

MaxRows == 2

RowLists == UNION {[1..n -> Rows] : n \in 0..MaxRows}

RemoteAnswers ==
  {Answer("throws", <<>>), Answer("notOk", <<>>), Answer("notArray", <<>>)}
  \cup {Answer("rows", rows) : rows \in RowLists}

\* "notArray": the body is no object with a products array
StaticAnswers ==
  {Answer("throws", <<>>), Answer("notOk", <<>>), Answer("notArray", <<>>)}
  \cup {Answer("rows", rows) : rows \in RowLists}

\* answers the other source is varied against
FixedRemoteAnswers ==
  {Answer("throws", <<>>), Answer("notArray", <<>>), Answer("rows", <<RowTwo>>),
   Answer("rows", <<RowBlankName>>)}

FixedStaticAnswers ==
  {Answer("throws", <<>>), Answer("rows", <<>>), Answer("rows", <<RowOne>>),
   Answer("rows", <<RowOne, RowRepeat>>)}

\* one source takes every answer while the other takes the fixed ones
LoadInputs ==
  [cfg : BOOLEAN, remote : RemoteAnswers, static : FixedStaticAnswers]
  \cup [cfg : BOOLEAN, remote : FixedRemoteAnswers, static : StaticAnswers]

InitLoad ==
  /\ MatcherIdle
  /\ BadgeIdle
  /\ ExtractorIdle
  /\ loadIn \in LoadInputs
  /\ loadOut = Load("idle", "pending", "none", <<>>)
  /\ InitAt(UrlS)

LoadStep(next) ==
  /\ loadOut' = next
  /\ UNCHANGED <<page, catalog, scoreOut, matchOut, html, callOut, loadIn, badge, programVars, sent,
                 changeCount>>

\* the first call of loadProductDatabase(): the promise is created and the load has
\* read the configuration
LoadStart ==
  /\ loadOut.stage = "idle"
  /\ LoadStep(Load("remote", "pending", "none", <<>>))

\* await loadSupabaseProducts() returned or threw: the promise is fulfilled with the
\* remote products, or the load goes on to businesses.json
LoadRemote ==
  /\ loadOut.stage = "remote"
  /\ LoadStep(IF remoteDelivered(loadSupabaseProducts(loadIn.cfg, loadIn.remote))
              THEN Load("done", "fulfilled", "remote",
                        loadSupabaseProducts(loadIn.cfg, loadIn.remote).products)
              ELSE Load("static", "pending", "none", <<>>))

\* return loadBusinessesProducts(): the promise settles as that call does
LoadStatic ==
  /\ loadOut.stage = "static"
  /\ LoadStep(IF loadBusinessesProducts(loadIn.static).threw
              THEN Load("done", "rejected", "none", <<>>)
              ELSE Load("done", "fulfilled", "static",
                        loadBusinessesProducts(loadIn.static).products))

NextLoad == LoadStart \/ LoadRemote \/ LoadStatic

SpecLoad == InitLoad /\ [][NextLoad]_vars

(***************************************************************************)
(* Background: the flashing badge.                                         *)
(***************************************************************************)
\* the largest number of rejected promises a tab has waiting for their catch callback
MaxRejections == 2

\* the badge text the interval shows while the badge is on (a bullet in the source)
BadgeDot == "dot"

\* the id setInterval returns: the smallest one no running interval has
NewFlashIntervalId(b) ==
  CHOOSE i \in 1..(Cardinality(b.timers) + 1) :
    /\ \A x \in b.timers : x.id # i
    /\ \A j \in 1..(i - 1) : \E x \in b.timers : x.id = j

\* safeActionCall(tabId, fn, args): fn(args) is made. The browser carries the call
\* out for an open tab; for a closed tab it reports "No tab with id", as the
\* rejection of the promise fn returned where the API returns promises, and to
\* nobody where it does not. isText tells setBadgeText from setBadgeBackgroundColor.
safeActionCall(b, tabId, isText, text) ==
  LET made == IF isText THEN [b EXCEPT !.asked[tabId] = text] ELSE b
  IN  IF made.open[tabId]
      THEN IF isText THEN [made EXCEPT !.text[tabId] = text] ELSE made
      ELSE IF made.promiseApi
           THEN [made EXCEPT !.rejections[tabId] = @ + 1]
           ELSE made

\* stopFlashing(tabId)
stopFlashing(b, tabId) ==
  LET existing == b.flashIntervalsByTabId[tabId]
      cleared  == IF existing # 0
                  THEN [b EXCEPT !.timers = {x \in @ : x.id # existing},
                                 !.flashIntervalsByTabId[tabId] = 0]
                  ELSE b
  IN  safeActionCall(cleared, tabId, TRUE, "")

\* a startFlashing that does not look at flashIntervalsByTabId first
startFlashing_Unguarded(b, tabId) ==
  LET coloured == safeActionCall(b, tabId, FALSE, "")
  IN  [coloured EXCEPT
         !.timers = @ \cup {[id |-> NewFlashIntervalId(coloured), tabId |-> tabId, on |-> FALSE]},
         !.flashIntervalsByTabId[tabId] = NewFlashIntervalId(coloured)]

\* startFlashing(tabId)
startFlashing(b, tabId) ==
  IF b.flashIntervalsByTabId[tabId] # 0 THEN b
  ELSE LET coloured == safeActionCall(b, tabId, FALSE, "")
       IN  [coloured EXCEPT
              !.timers = @ \cup {[id |-> NewFlashIntervalId(coloured), tabId |-> tabId, on |-> FALSE]},
              !.flashIntervalsByTabId[tabId] = NewFlashIntervalId(coloured)]

\* swallowNoTabError(tabId, err) for an err whose message holds "no tab with id"
swallowNoTabError(b, tabId) == stopFlashing(b, tabId)

\* a handler that makes a badge call for tabId besides those it answers may run: the
\* call is carried out, or fewer than MaxRejections rejections of the tab are waiting
MayCall(tabId) == badge.open[tabId] \/ badge.rejections[tabId] < MaxRejections

\* the handler ran and left the background script in state b
BadgeStep(type, tabId, b) ==
  /\ badge' = [b EXCEPT !.handled = Handled(type, tabId)]
  /\ UNCHANGED <<page, catalog, scoreOut, matchOut, html, callOut, loadVars, programVars, sent,
                 changeCount>>

InitBadge ==
  /\ MatcherIdle
  /\ ExtractorIdle
  /\ LoaderIdle
  /\ \E promiseApi \in BOOLEAN : badge = BadgeAtStart(promiseApi)
  /\ InitAt(UrlS)

\* runtime.onMessage with FAIRFINDZ_START_FLASHING from the content script of tab
\* tabId (sender.tab.id)
StartFlashingMessage(tabId) ==
  /\ badge.open[tabId]
  /\ BadgeStep("FAIRFINDZ_START_FLASHING", tabId, startFlashing(badge, tabId))

\* runtime.onMessage with FAIRFINDZ_STOP_FLASHING from the content script of tab tabId
StopFlashingMessage(tabId) ==
  /\ badge.open[tabId]
  /\ BadgeStep("FAIRFINDZ_STOP_FLASHING", tabId, stopFlashing(badge, tabId))

\* runtime.onMessage with FAIRFINDZ_CLEAR_BADGE from the content script of tab tabId
ClearBadgeMessage(tabId) ==
  /\ badge.open[tabId]
  /\ BadgeStep("FAIRFINDZ_CLEAR_BADGE", tabId, stopFlashing(badge, tabId))

\* the user closes the tab; the browser has tabs.onRemoved to deliver
TabClosed(tabId) ==
  /\ badge.open[tabId]
  /\ BadgeStep("close", tabId, [badge EXCEPT !.open[tabId] = FALSE, !.removing[tabId] = TRUE])

\* the tabs.onRemoved listener runs for the closed tab
TabRemoved(tabId) ==
  /\ badge.removing[tabId]
  /\ MayCall(tabId)
  /\ BadgeStep("onRemoved", tabId, stopFlashing([badge EXCEPT !.removing[tabId] = FALSE], tabId))

\* the callback of a flash interval runs, half a second after the last time
FlashTick ==
  \E x \in badge.timers :
    /\ MayCall(x.tabId)
    /\ BadgeStep("interval", x.tabId,
                 safeActionCall([badge EXCEPT !.timers = (@ \ {x}) \cup {[x EXCEPT !.on = ~x.on]}],
                                x.tabId, TRUE, IF ~x.on THEN BadgeDot ELSE ""))

\* the promise of a refused badge call for tabId is rejected and the catch callback
\* of safeActionCall runs
BadgeCallRejected(tabId) ==
  /\ badge.rejections[tabId] > 0
  /\ BadgeStep("catch", tabId,
               swallowNoTabError([badge EXCEPT !.rejections[tabId] = @ - 1], tabId))

NextBadge ==
  \E tabId \in Tabs :
    \/ StartFlashingMessage(tabId)
    \/ StopFlashingMessage(tabId)
    \/ ClearBadgeMessage(tabId)
    \/ TabClosed(tabId)
    \/ TabRemoved(tabId)
    \/ FlashTick
    \/ BadgeCallRejected(tabId)

SpecBadge == InitBadge /\ [][NextBadge]_vars

\* the browser settles every promise it returned
SpecBadgeSettling ==
  /\ SpecBadge
  /\ \A tabId \in Tabs : WF_vars(BadgeCallRejected(tabId))

(***************************************************************************)
(* Properties of the matcher (checked under SpecMatch).                    *)
(***************************************************************************)
\* the domain set of the page as the classifier sees title + breadcrumbs
PageDomainsAt == [d \in Doms |-> detectDomainsFromText(d.title \o " " \o d.breadcrumbs)]

PageDomainSet == PageDomainsAt[page]

\* the domain set of each catalog entry, computed once
ProductDomainsAt == [p \in Products |-> getProductDomains(p)]

\* scoreProduct(p, { ...amazonInfo, pageDomains }).score for each page and entry
StandaloneScoreAt ==
  [d \in Doms |->
     [p \in Products |-> scoreProduct(p, WithPageDomains(PageInfoAt[d], PageDomainsAt[d])).score]]

\* the score scoreProduct gives p on the current page, given the page's domain set
StandaloneScore(p) == StandaloneScoreAt[page][p]

InStock(p) == p.availability # "out_of_stock"

InScored(p) == matchOut.some /\ \E i \in DOMAIN matchOut.val.scored : matchOut.val.scored[i].product = p

\* C7: on a page whose title + breadcrumb text yields no domain, matchProducts
\* returns an empty top list and an empty scored list, whatever the catalog holds.
C7_UnclassifiedPageYieldsNoMatches ==
  (matchOut.some /\ PageDomainSet = {}) =>
    (matchOut.val.top = <<>> /\ matchOut.val.scored = <<>>)

\* matchProducts ran on an unclassified page whose catalog holds an in-stock entry
\* that scoreProduct alone would score above 0
C7_Witness ==
  /\ matchOut.some
  /\ PageDomainSet = {}
  /\ \E i \in DOMAIN catalog : InStock(catalog[i]) /\ StandaloneScore(catalog[i]) > 0

AllGenericKeywords(matched) ==
  \A i \in DOMAIN matched : normalizeText(matched[i]) \in {"coffee", "candle", "candles"}

\* C8: a candidate whose matched keywords are all generic (coffee, candle, candles)
\* gets score 0 from scoreProduct and never appears in the scored list of matchProducts.
C8_GenericOnlyScoresZero ==
  /\ (scoreOut.some /\ AllGenericKeywords(scoreOut.val.result.matchedKeywords)) =>
       scoreOut.val.result.score = 0
  /\ matchOut.some =>
       \A i \in DOMAIN matchOut.val.scored :
         ~AllGenericKeywords(matchOut.val.scored[i].matchedKeywords)

\* scoreProduct ran on a candidate with two generic matches, a brand match and a
\* permissive page domain
C8_Witness ==
  /\ scoreOut.some
  /\ Len(scoreOut.val.result.matchedKeywords) >= 2
  /\ AllGenericKeywords(scoreOut.val.result.matchedKeywords)
  /\ Includes(pageInfo.combinedText, normalizeText(scoreOut.val.product.brand))
  /\ "coffee" \in scoreOut.val.pageDomains

BrandInSearchText(p) ==
  normalizeText(p.brand) # "" /\ Includes(pageInfo.combinedText, normalizeText(p.brand))

PermissiveDomains(pd) == pd \cap {"oralcare", "skincare", "household", "coffee", "supplements"} # {}

BrandInTitle(p) ==
  normalizeText(p.brand) # "" /\ Includes(normalizeText(page.title), normalizeText(p.brand))

NoDomainOverlap(p) == ProductDomainsAt[p] \cap PageDomainSet = {}

\* C10: an in-stock candidate whose domains do not intersect the page's domains is
\* excluded, unless its brand occurs verbatim in the page title: then it is still
\* admitted to scoring (and so is in scored when its score is above 0).
C10_BrandAffinityAdmitsCrossDomain ==
  matchOut.some =>
    \A i \in DOMAIN catalog :
      (InStock(catalog[i]) /\ NoDomainOverlap(catalog[i]) /\ PageDomainSet # {}) =>
        (InScored(catalog[i]) <=> (BrandInTitle(catalog[i]) /\ StandaloneScore(catalog[i]) > 0))

\* the result scoreProduct would give if brand affinity were decided by the page
\* title alone
ScoreWithTitleAffinity(p, info) ==
  scoreMatched(p, info, matchedKeywordsIn(effectiveKeywords(p), info.combinedText),
               BrandInTitle(p), pageWantsCollagen(info), productIsCollagen(p))

\* C11: brand affinity in scoreProduct (the +20, the relaxed 2-keyword gate, the
\* same-brand exemption of the intent rule) holds exactly when the candidate's
\* normalized brand occurs in the page title: the returned score is the one obtained
\* with affinity decided by the title, so a brand found only in the feature bullets
\* or the description changes nothing.
C11_BrandAffinityFromTitleOnly ==
  scoreOut.some =>
    scoreOut.val.result.score =
      ScoreWithTitleAffinity(scoreOut.val.product,
                             WithPageDomains(pageInfo, scoreOut.val.pageDomains)).score

\* the candidate passed the minimum-evidence gate of scoreProduct
PassedGate(p, info, r) ==
  r.keywordMatches >= minKeywordMatches(p, info) /\ nonGenericCount(r.matchedKeywords) >= 1

\* the additive part of the score: category term, 12 per matched keyword, brand
\* bonus, rating tier, review-count tier
AdditiveScore(p, info, k) ==
  (IF info.category # "unknown" /\ p.category = info.category THEN 60 ELSE 20)
  + 12 * k + (IF BrandInSearchText(p) THEN 20 ELSE 0)
  + ratingBonus(p.rating) + reviewBonus(p.reviewCount)

\* C12: on a page whose text is about collagen/peptides, for a candidate that passed
\* the minimum-evidence gate: one whose own text matches the sub-type gets exactly
\* +80 on top of the additive score; one that does not match but has brand affinity
\* is kept with the additive score and no +80; one that does not match and has no
\* brand affinity gets score 0, and is in no scored list.
C12_IntentRule ==
  /\ (scoreOut.some /\ pageWantsCollagen(pageInfo)
       /\ PassedGate(scoreOut.val.product,
                     WithPageDomains(pageInfo, scoreOut.val.pageDomains), scoreOut.val.result)) =>
       LET p == scoreOut.val.product
           r == scoreOut.val.result
           base == AdditiveScore(p, pageInfo, r.keywordMatches)
       IN /\ productIsCollagen(p) => r.score = base + 80
          /\ (~productIsCollagen(p) /\ BrandInSearchText(p)) => r.score = base
          /\ (~productIsCollagen(p) /\ ~BrandInSearchText(p)) => r.score = 0
  /\ (matchOut.some /\ pageWantsCollagen(pageInfo)) =>
       \A i \in DOMAIN matchOut.val.scored :
         LET e == matchOut.val.scored[i]
         IN \/ productIsCollagen(e.product)
               /\ e.score = AdditiveScore(e.product, pageInfo, e.keywordMatches) + 80
            \/ ~productIsCollagen(e.product) /\ BrandInSearchText(e.product)
               /\ e.score = AdditiveScore(e.product, pageInfo, e.keywordMatches)

\* scoreProduct ran on a collagen page on a candidate that passed the gate, does not
\* match the sub-type and has no brand affinity
C12_Witness ==
  /\ scoreOut.some
  /\ pageWantsCollagen(pageInfo)
  /\ PassedGate(scoreOut.val.product,
                WithPageDomains(pageInfo, scoreOut.val.pageDomains), scoreOut.val.result)
  /\ ~productIsCollagen(scoreOut.val.product)
  /\ ~BrandInSearchText(scoreOut.val.product)
  /\ scoreOut.val.result.score = 0

\* scoreProduct boosted a candidate that matches the sub-type
C12_WitnessBoosted ==
  /\ scoreOut.some
  /\ pageWantsCollagen(pageInfo)
  /\ productIsCollagen(scoreOut.val.product)
  /\ scoreOut.val.result.score > 80

\* scoreProduct kept a same-brand candidate that does not match the sub-type
C12_WitnessSameBrand ==
  /\ scoreOut.some
  /\ pageWantsCollagen(pageInfo)
  /\ ~productIsCollagen(scoreOut.val.product)
  /\ BrandInSearchText(scoreOut.val.product)
  /\ scoreOut.val.result.score > 0

\* the candidate passed the minimum-evidence gate and the intent rule
PassedGates(p, info, r) ==
  /\ PassedGate(p, info, r)
  /\ ~(pageWantsCollagen(info) /\ ~productIsCollagen(p) /\ ~BrandInSearchText(p))

IntentBoost(p, info) == IF pageWantsCollagen(info) /\ productIsCollagen(p) THEN 80 ELSE 0

\* the additive score with the category term decided by equality alone
AdditiveScoreByEquality(p, info, k) ==
  (IF p.category = info.category THEN 60 ELSE 20)
  + 12 * k + (IF BrandInSearchText(p) THEN 20 ELSE 0)
  + ratingBonus(p.rating) + reviewBonus(p.reviewCount)

\* C13 (as stated): for every candidate that passes the gates the score equals
\* (60 if the candidate category equals the page category, otherwise 20)
\* + 12 x keywordMatchCount + (20 if brand affinity) + rating tier + review tier
\* (+ 80 when the intent rule boosts it).
C13_ScoreByCategoryEquality ==
  (scoreOut.some
   /\ PassedGates(scoreOut.val.product,
                  WithPageDomains(pageInfo, scoreOut.val.pageDomains), scoreOut.val.result)) =>
    scoreOut.val.result.score =
      AdditiveScoreByEquality(scoreOut.val.product, pageInfo, scoreOut.val.result.keywordMatches)
      + IntentBoost(scoreOut.val.product, pageInfo)

\* C13 (amended): for every candidate that passes the gates the score equals
\* (60 if the page category is not "unknown" and the candidate category equals it,
\* otherwise 20) + 12 x keywordMatchCount + (20 if brand affinity) + rating tier
\* + review tier (+ 80 when the intent rule boosts it), in scoreProduct's result and
\* in every scored entry; a coffee-domain page with one matched non-generic keyword,
\* no category equality and no brand affinity scores 32 plus the two tiers.
C13_ScoreFormula ==
  /\ (scoreOut.some
       /\ PassedGates(scoreOut.val.product,
                      WithPageDomains(pageInfo, scoreOut.val.pageDomains), scoreOut.val.result)) =>
       LET p == scoreOut.val.product
           r == scoreOut.val.result
       IN /\ r.score = AdditiveScore(p, pageInfo, r.keywordMatches) + IntentBoost(p, pageInfo)
          /\ ("coffee" \in scoreOut.val.pageDomains /\ r.keywordMatches = 1
              /\ p.category # pageInfo.category /\ ~BrandInSearchText(p)
              /\ ~pageWantsCollagen(pageInfo)) =>
               r.score = 32 + ratingBonus(p.rating) + reviewBonus(p.reviewCount)
  /\ matchOut.some =>
       \A i \in DOMAIN matchOut.val.scored :
         LET e == matchOut.val.scored[i]
         IN e.score = AdditiveScore(e.product, pageInfo, e.keywordMatches)
                      + IntentBoost(e.product, pageInfo)

\* scoreProduct ran on a coffee-domain page on a candidate of another category with
\* one matched non-generic keyword and no brand affinity, and passed it
C13_Witness ==
  /\ scoreOut.some
  /\ "coffee" \in scoreOut.val.pageDomains
  /\ scoreOut.val.result.keywordMatches = 1
  /\ ~AllGenericKeywords(scoreOut.val.result.matchedKeywords)
  /\ scoreOut.val.product.category # pageInfo.category
  /\ ~BrandInSearchText(scoreOut.val.product)
  /\ scoreOut.val.result.score
       = 32 + ratingBonus(scoreOut.val.product.rating) + reviewBonus(scoreOut.val.product.reviewCount)

\* the part of a passed candidate's score that the rating contributed
RatingShare(p, info, r) ==
  r.score - IntentBoost(p, info)
  - (AdditiveScore(p, info, r.keywordMatches) - ratingBonus(p.rating))

\* C14: the rating bonus added by scoreProduct is +10 for every rating from 4.8 up
\* to 5, lies between 2 and 10 for ratings from 4.0 to 4.7, is +2 at 4.0 and is 0
\* below 4.0 (ratings in tenths).
C14_RatingBonusTiers ==
  (scoreOut.some
   /\ PassedGates(scoreOut.val.product,
                  WithPageDomains(pageInfo, scoreOut.val.pageDomains), scoreOut.val.result)) =>
    LET rating == scoreOut.val.product.rating
        b == RatingShare(scoreOut.val.product, pageInfo, scoreOut.val.result)
    IN /\ (48 <= rating /\ rating <= 50) => b = 10
       /\ (40 <= rating /\ rating < 48) => (2 <= b /\ b <= 10)
       /\ rating = 40 => b = 2
       /\ rating < 40 => b = 0

\* p passes the domain gating of matchProducts on the current page
PassedDomainGating(p) ==
  /\ PageDomainSet # {}
  /\ \E i \in DOMAIN catalog :
       InStock(catalog[i]) /\ ProductDomainsAt[catalog[i]] \cap PageDomainSet # {}
  /\ \/ ProductDomainsAt[p] \cap PageDomainSet # {}
     \/ /\ "supplements" \in PageDomainSet
        /\ "supplements" \in ProductDomainsAt[p]
        /\ BrandInTitle(p)

\* a is ranked at or before b: score, then keyword-match count, then rating, then
\* review count, each descending
RankedBefore(a, b) ==
  \/ a.score > b.score
  \/ a.score = b.score /\ a.keywordMatches > b.keywordMatches
  \/ a.score = b.score /\ a.keywordMatches = b.keywordMatches
     /\ a.product.rating > b.product.rating
  \/ a.score = b.score /\ a.keywordMatches = b.keywordMatches
     /\ a.product.rating = b.product.rating /\ a.product.reviewCount >= b.product.reviewCount

\* C15: scored holds exactly the in-stock candidates that passed domain gating with
\* score > 0, each once and with its scoreProduct result, ordered by score, then
\* keyword-match count, then rating, then review count, all descending; top is the
\* first min(limit, |scored|) elements of scored (limit 3 by default).
C15_ScoredAndTop ==
  matchOut.some =>
    LET scored == matchOut.val.scored
        top == matchOut.val.top
        limit == matchOut.val.limit
    IN /\ {scored[i].product : i \in DOMAIN scored}
            = {catalog[i] : i \in {j \in DOMAIN catalog :
                                     /\ InStock(catalog[j])
                                     /\ PassedDomainGating(catalog[j])
                                     /\ StandaloneScore(catalog[j]) > 0}}
       /\ \A i, j \in DOMAIN scored : i # j => scored[i].product # scored[j].product
       /\ \A i \in DOMAIN scored : scored[i].score = StandaloneScore(scored[i].product)
       /\ \A i, j \in DOMAIN scored : i < j => RankedBefore(scored[i], scored[j])
       /\ Len(top) = (IF limit < Len(scored) THEN limit ELSE Len(scored))
       /\ \A i \in DOMAIN top : top[i] = scored[i]

\* matchProducts ranked two entries of equal score, keyword count and rating by
\* review count, against catalog order, and cut top to a limit of 1
C15_Witness ==
  /\ matchOut.some
  /\ Len(matchOut.val.scored) = 2
  /\ matchOut.val.scored[1].score = matchOut.val.scored[2].score
  /\ matchOut.val.scored[1].product.reviewCount > matchOut.val.scored[2].product.reviewCount
  /\ matchOut.val.scored[1].product = catalog[2]
  /\ matchOut.val.limit = 1
  /\ Len(matchOut.val.top) = 1

\* matchProducts left out an out-of-stock entry that scoreProduct scores above 0
C15_WitnessOutOfStock ==
  /\ matchOut.some
  /\ matchOut.val.scored # <<>>
  /\ \E i \in DOMAIN catalog :
       ~InStock(catalog[i]) /\ StandaloneScore(catalog[i]) > 0 /\ ~InScored(catalog[i])

MetaMessage == "FAIRFINDZ_RESOLVE_PRODUCT_META"

\* the functions that extract a field from fetched markup
ExtractorNames ==
  {"extractImageUrlFromHtml", "extractPriceFromHtml", "extractPriceFromMobileHtml",
   "extractRatingReviewFromHtml", "resolveAmazonOgImage"}

\* the markup holds one of the interstitial markers, in any case
HoldsInterstitialMarker(markup) ==
  \E m \in InterstitialMarkers : Includes(ToLowerCase(markup), m)

\* the result carries no data: null, or rating and reviewCount both null
IsNoData(result) == result.text = Null /\ result.rating = None /\ result.reviewCount = None

\* C17: every function that extracts a field from fetched markup
\* (extractImageUrlFromHtml, extractPriceFromHtml, extractPriceFromMobileHtml,
\* extractRatingReviewFromHtml and the content script's resolveAmazonOgImage), called on
\* markup that holds an interstitial marker, returns no data, whatever price-like,
\* rating-like or image-like text the markup also holds.
C17_NoDataFromInterstitial ==
  (/\ callOut.some
   /\ callOut.val.fn \in ExtractorNames
   /\ HoldsInterstitialMarker(html))
  => IsNoData(callOut.val.result)

\* the numeric value of a price text is at or above the floor
AtOrAboveFloor(priceText) ==
  numericOf(priceText) # NaN /\ numericOf(priceText) >= PriceFloor * NumericScale

\* the request of the last step got as far as the extraction of the desktop price,
\* and that price is a number below the floor
DesktopPriceBelowFloor ==
  /\ callOut.val.args.ok
  /\ isAmazonUrl(callOut.val.args.productUrl)
  /\ extractPriceFromHtml(html) # Null
  /\ numericOf(extractPriceFromHtml(html)) # NaN
  /\ ~AtOrAboveFloor(extractPriceFromHtml(html))

\* C18: the priceText of every FAIRFINDZ_RESOLVE_PRODUCT_META response is null or a
\* price at or above the floor of 5; a desktop price below the floor is replaced by the
\* price of the mobile page only if that one is format-plausible and at least 5, and
\* is discarded otherwise.
C18_MetaPriceNullOrAtFloor ==
  (callOut.some /\ callOut.val.fn = MetaMessage)
  => /\ \/ callOut.val.result.text = Null
        \/ AtOrAboveFloor(callOut.val.result.text)
     /\ DesktopPriceBelowFloor
        => \/ callOut.val.result.text = Null
           \/ /\ callOut.val.args.mobileRes.ok
              /\ callOut.val.result.text = mobilePriceOf(callOut.val.args.mobileRes.text)
              /\ isPlausibleAmazonPriceText(callOut.val.result.text)
              /\ AtOrAboveFloor(callOut.val.result.text)

\* "$", then digits with optional thousands separators, then "." and exactly two
\* decimal digits, and nothing else
IsDollarAmountWithCents(t) ==
  /\ Len(t) >= 5
  /\ CharAt(t, 1) = "$"
  /\ IsDigit(CharAt(t, 2))
  /\ \A k \in 2..(Len(t) - 3) : IsDigit(CharAt(t, k)) \/ CharAt(t, k) = ","
  /\ CharAt(t, Len(t) - 2) = "."
  /\ IsDigit(CharAt(t, Len(t) - 1))
  /\ IsDigit(CharAt(t, Len(t)))

\* C19: isPlausibleAmazonPriceText accepts a value only if it is a string made of "$",
\* digits with optional thousands separators, "." and exactly two decimal digits; it
\* rejects "$10", "$1,234", "10.00" and every other shape; and no price that fails the
\* filter is put in a META response.
C19_PlausibleShapeOnly ==
  /\ (callOut.some /\ callOut.val.fn = "isPlausibleAmazonPriceText")
     => /\ callOut.val.result.accepted
           => /\ callOut.val.args.priceText # Null
              /\ IsDollarAmountWithCents(callOut.val.args.priceText)
        /\ callOut.val.args.priceText \in {"$10", "$1,234", "10.00"}
           => ~callOut.val.result.accepted
  /\ (callOut.some /\ callOut.val.fn = MetaMessage /\ callOut.val.result.text # Null)
     => isPlausibleAmazonPriceText(callOut.val.result.text)

\* a context word stands near the match at position i of the window
NearContextWord(wl, i) ==
  \E word \in JsonContextWords :
    Includes(Slice(wl, i - 1 - JsonContextBefore, i - 1 + JsonContextAfter), word)

\* the displayPrice values of the window that are not discarded, in the order found
RemainingOf(w, wl, found) ==
  SelectSeq([n \in DOMAIN found |-> [text |-> DisplayPriceText(w, wl, found[n]),
                                     near |-> NearContextWord(wl, found[n])]],
            LAMBDA v : AtOrAboveFloor(v.text) /\ ~v.near)

RemainingIn(w) ==
  RemainingOf(w, ToLowerCase(w), Ascending({i \in 1..Len(w) : DisplayPriceEnd(w, ToLowerCase(w), i) # 0}))

\* the remaining values of the window after an anchor, none when the anchor is absent
RemainingAfter(markup, anchor) ==
  IF IndexOf(markup, anchor) = 0 THEN <<>>
  ELSE RemainingIn(Slice(markup, IndexOf(markup, anchor) - 1,
                         IndexOf(markup, anchor) - 1 + JsonWindowLength))

\* the remaining values of the first anchor that has any
FirstRemaining(first, second) == IF first # <<>> THEN first ELSE second

Remaining(markup) ==
  FirstRemaining(RemainingAfter(markup, "\"priceToPay\""),
                 RemainingAfter(markup, "\"apexPriceToPay\""))

\* text is the first value with a two-digit cents component, else the first value
IsFirstWithCentsElseFirst(text, remaining) ==
  \E n \in DOMAIN remaining :
    /\ remaining[n].text = text
    /\ IF \E k \in DOMAIN remaining : HasCents(remaining[k].text)
       THEN HasCents(text) /\ \A k \in 1..(n - 1) : ~HasCents(remaining[k].text)
       ELSE n = 1

\* C20: in the JSON "price to pay" strategy of extractPriceFromHtml every displayPrice
\* value of the window after the anchor that is below 5 or has coupon, savings,
\* discount or promo context nearby is discarded; the first remaining value with a
\* two-digit cents component is returned, else the first remaining value; a window
\* with "$1.33" and "$15.99" and no coupon context yields "$15.99".
C20_JsonPriceToPay ==
  (/\ callOut.some
   /\ callOut.val.fn = "extractPriceFromHtml"
   /\ ~HoldsInterstitialMarker(html))
  => /\ Remaining(html) # <<>>
        => IsFirstWithCentsElseFirst(callOut.val.result.text, Remaining(html))
     /\ html = JsonUnitThenMain => callOut.val.result.text = "$15.99"

\* the strategy ran on a window with a value below 5, then a whole-dollar value, then
\* a value with cents, and returned the last
C20_Witness ==
  /\ callOut.some
  /\ callOut.val.fn = "extractPriceFromHtml"
  /\ html = JsonWholeThenCents
  /\ Len(Remaining(html)) = 2
  /\ ~HasCents(Remaining(html)[1].text)
  /\ callOut.val.result.text = "$21.50"

\* the strategy ran on a window whose first value has coupon context nearby, and
\* returned the value that stands clear of it
C20_WitnessCoupon ==
  /\ callOut.some
  /\ callOut.val.fn = "extractPriceFromHtml"
  /\ html = JsonCoupon
  /\ callOut.val.result.text = "$24.99"

ImageMessage == "FAIRFINDZ_RESOLVE_PRODUCT_IMAGE"

\* C21: the imageUrl of every FAIRFINDZ_RESOLVE_PRODUCT_IMAGE response, and every
\* result of extractImageUrlFromHtml, is null or an https URL on the allow-listed
\* image host m.media-amazon.com.
C21_ImageUrlNullOrAllowListed ==
  (callOut.some /\ callOut.val.fn \in {ImageMessage, "extractImageUrlFromHtml"}) =>
    \/ callOut.val.result.text = Null
    \/ isValidAmazonImageUrl(callOut.val.result.text)

\* the handler answered with an image URL of the allow-listed host
C21_AllowListedReturned ==
  /\ callOut.some
  /\ callOut.val.fn = ImageMessage
  /\ callOut.val.result.text # Null
  /\ isValidAmazonImageUrl(callOut.val.result.text)

(***************************************************************************)
(* Properties of navigation, catalog load and display, checked under Spec. *)
(***************************************************************************)
\* C1: no timer scheduled before a detected navigation creates a toast: a toast
\* that is displayed was never created by a timer that was already pending when the
\* last navigation was detected.
C1_NoToastFromTimerOfEarlierPage == toastEl.some => ~toastEl.val.stale

\* C2: a logProductPageStatus run requested for one URL that resumes while another
\* URL is current stores nothing in cachedAmazonInfo, cachedMatches, cachedUrl or
\* cachedAsin and schedules no timer.
C2_MismatchedRunIsDiscarded ==
  [][(/\ microtasks # <<>>
      /\ Head(microtasks).kind = "status"
      /\ Head(microtasks).forUrl # href
      /\ microtasks' = Tail(microtasks))
     => UNCHANGED <<cacheVars, timers>>]_vars

\* C3: no image shown in the displayed modal was assigned by a resolution that was
\* pending when a navigation was detected.
C3_NoImageFromResolutionOfEarlierPage ==
  modal.some => \A i \in DOMAIN modal.val.imgs : ~modal.val.imgs[i].stale

\* C4: in the state the step that records a new lastObservedUrl leaves (the
\* recomputation it starts stores only after its await): the four caches are null,
\* there is no toast element, the toast countdown interval is cancelled,
\* toastClosedByUser is false and FAIRFINDZ_CLEAR_BADGE was sent.
C4_ResetOnObservedUrlChange ==
  [][lastObservedUrl' # lastObservedUrl =>
       /\ cachedAmazonInfo' = None
       /\ cachedMatches' = None
       /\ cachedUrl' = Null
       /\ cachedAsin' = Null
       /\ toastEl' = None
       /\ toastCountdownIntervalId' = 0
       /\ toastCountdownIntervalId \notin {i.id : i \in intervals'}
       /\ toastClosedByUser' = FALSE
       /\ "FAIRFINDZ_CLEAR_BADGE" \in Range(sent')]_vars

\* C4 witness: a navigation has just been detected (the reset's message is the first
\* one sent by the last step) after results for the earlier page had been stored and
\* its timer scheduled
C4_Witness ==
  /\ sent # <<>> /\ sent[1] = "FAIRFINDZ_CLEAR_BADGE"
  /\ navCount > 0
  /\ \E i \in DOMAIN timers : timers[i].stale
  /\ cachedUrl = Null /\ toastEl = None

\* C5 as stated: every URL change has had exactly one reset-and-recompute once the
\* current URL is the observed one.
C5_OneResetPerUrlChange == (href = lastObservedUrl) => (navCount = changeCount)

\* C5, amended: a call of onPossibleUrlChange that finds a URL other than
\* lastObservedUrl records it and does exactly one reset-and-recompute, nothing else
\* resets, so there are never more resets than URL changes (changes between two
\* observations share one reset); a call while the URL equals lastObservedUrl changes
\* no state of the content script and sends nothing.
C5_OneResetPerObservedChange ==
  [][/\ (lastObservedUrl' # lastObservedUrl <=> navCount' = navCount + 1)
     /\ (navCount' # navCount =>
           /\ navCount' = navCount + 1
           /\ lastObservedUrl' = href'
           /\ (href' \in ProductPageUrls =>
                 \/ waiters' = Append(waiters, StatusRun(href'))
                 \/ microtasks' = Append(microtasks, StatusRun(href'))))
     /\ navCount' <= changeCount'
     /\ ((Poll \/ PushState \/ ReplaceState \/ PopState) /\ href' = lastObservedUrl =>
           /\ UNCHANGED <<lastObservedUrl, cacheVars, toastVars, modalVars, dbVars, waiters,
                          microtasks, timers, navCount>>
           /\ sent' = <<>>)]_vars

\* C5 witness: two URL changes were made, one reset-and-recompute has happened, and
\* the current URL is the observed one
C5_Witness == changeCount = 2 /\ navCount = 1 /\ href = lastObservedUrl /\ sent # <<>>

\* C6: at most one catalog load is ever started, it is started with the promise, no
\* caller is left waiting once it has settled, callers resume only on the settled
\* promise, and what they read is the outcome of that load.
C6_SingleCatalogLoad ==
  /\ loadsStarted <= 1
  /\ (loadsStarted = 0 <=> productDatabasePromise = "null")
  /\ (productDatabasePromise # "pending" => waiters = <<>>)
  /\ (microtasks # <<>> => productDatabasePromise \in {"fulfilled", "rejected"})
  /\ (productDatabasePromise = "fulfilled" <=> dbValue.some)
  /\ (loadStage = "done" <=> productDatabasePromise \in {"fulfilled", "rejected"})

\* C6 witness: loadProductDatabase was called after the one load had failed (the
\* modal request is the step that just ran) and its caller is handed the rejection
C6_Witness ==
  /\ productDatabasePromise = "rejected"
  /\ loadsStarted = 1
  /\ sent = <<"FAIRFINDZ_STOP_FLASHING">>
  /\ microtasks # <<>> /\ Head(microtasks).kind = "modal"

\* C22: within one image resolution no fetch of the product URL is issued after a
\* fetch of that URL failed.
C22_FailedFetchNotRetried ==
  \A h \in hydrations : \A i \in 1..(Len(h.fetches) - 1) : h.fetches[i] # "failed"

\* a resolution whose background fetch failed is being answered by a second fetch
C22_SecondFetchPending ==
  \E h \in hydrations : h.fetches = <<"failed", "pending">>

\* C26: at most one toast countdown interval is active, it is the one recorded in
\* toastCountdownIntervalId, and it is active only while the toast element is in the
\* document; no step that removes the toast leaves an interval behind.
C26_OneCountdownWithItsToast ==
  /\ Cardinality(intervals) <= 1
  /\ \A i \in intervals : i.id = toastCountdownIntervalId /\ i.remaining > 0
  /\ intervals # {} => toastEl.some
  /\ toastCountdownIntervalId # 0 => intervals # {}

\* the user closed a toast by hand: the toast and its countdown are gone, the badge
\* was asked to flash
C26_Witness ==
  /\ toastClosedByUser
  /\ toastEl = None
  /\ intervals = {}
  /\ sent = <<"FAIRFINDZ_START_FLASHING">>

\* the countdown of a toast ran out: the tick that reached 0 removed toast and interval
C26_WitnessExpiry ==
  /\ ~toastClosedByUser
  /\ toastEl = None
  /\ intervals = {}
  /\ sent = <<"FAIRFINDZ_START_FLASHING">>

\* the step is the one that answers a FAIRFINDZ_SHOW_MODAL request with createModal:
\* the listener itself when it reuses the cache, else the run after the catalog await
ModalRequestAnswered ==
  \/ /\ ShowModalMessage
     /\ href \in ProductPageUrls
     /\ cachedAmazonInfo.some /\ cachedMatches.some /\ ~cacheIsForOtherPage
  \/ /\ ResumeModal
     /\ productDatabasePromise = "fulfilled"
     /\ Head(microtasks).force \/ ~InDatabaseAt[href][dbValue.val]

\* the modal in the document was rendered for the current URL with the matches of
\* the current page
ModalShowsCurrentPage ==
  /\ modal.some
  /\ modal.val.forUrl = href
  /\ dbValue.some
  /\ modal.val.items = ProductIds(TopAt[href][dbValue.val])

\* C27: after an in-page navigation, the step that answers a FAIRFINDZ_SHOW_MODAL
\* request on a product page leaves a modal that was rendered for the current URL with
\* the matches of the current page.
C27_ModalShowsCurrentPage ==
  [][(changeCount > 0 /\ ModalRequestAnswered) => ModalShowsCurrentPage']_vars

\* the same for requests answered while no modal is in the document
C27_FreshModalShowsCurrentPage ==
  [][(changeCount > 0 /\ modal = None /\ ModalRequestAnswered) => ModalShowsCurrentPage']_vars

\* C28: from the manual close of the toast until the next detected navigation (which
\* clears toastClosedByUser) no toast is created.
C28_NoToastAfterManualClose ==
  [][(toastClosedByUser /\ toastClosedByUser' /\ toastEl = None) => toastEl' = None]_vars

\* the item of the current page is an entry of the loaded catalog
OnCatalogPage == dbValue.some /\ InDatabaseAt[href][dbValue.val]

\* C25: on a page whose item is a catalog entry, the status run schedules no toast and
\* stops and clears the badge, and the run of a FAIRFINDZ_SHOW_MODAL request opens no
\* modal.
C25_CatalogPageSurfacesNothing ==
  [][OnCatalogPage =>
       /\ ResumeStatus =>
            /\ timers' = timers
            /\ toastEl' = None
            /\ sent' = <<"FAIRFINDZ_STOP_FLASHING", "FAIRFINDZ_CLEAR_BADGE">>
       /\ ResumeModal => modal' = modal]_vars

\* the same with the request's force flag unset (a request that is not the toolbar's)
C25_UnforcedRequestOpensNothing ==
  [][OnCatalogPage =>
       /\ ResumeStatus =>
            /\ timers' = timers
            /\ toastEl' = None
            /\ sent' = <<"FAIRFINDZ_STOP_FLASHING", "FAIRFINDZ_CLEAR_BADGE">>
       /\ (ResumeModal /\ ~Head(microtasks).force) => modal' = modal]_vars

(***************************************************************************)
(* Properties of the catalog sources, checked under SpecLoad.              *)
(***************************************************************************)
\* a row with every identity field present and not blank
IsUsableRow(r) == \A f \in RequiredFields : TrimmedText(r[f]) # ""

\* the remote load succeeds with at least one product
RemoteSucceeds ==
  /\ loadIn.cfg
  /\ loadIn.remote.kind = "rows"
  /\ \E i \in DOMAIN loadIn.remote.rows : IsUsableRow(loadIn.remote.rows[i])

StaticFails == loadBusinessesProducts(loadIn.static).threw

\* C23: the settled load delivers the remote catalog exactly when the remote load
\* succeeded with at least one product; otherwise it delivers the static catalog, and
\* it is rejected only if the static catalog fails too.
C23_RemoteElseStatic ==
  loadOut.stage = "done" =>
    /\ loadOut.source = "remote" <=> RemoteSucceeds
    /\ loadOut.source = "remote" => loadOut.state = "fulfilled" /\ loadOut.products # <<>>
    /\ (~RemoteSucceeds /\ ~StaticFails) =>
         /\ loadOut.state = "fulfilled"
         /\ loadOut.source = "static"
         /\ Len(loadOut.products) = Len(loadIn.static.rows)
    /\ loadOut.state = "rejected" <=> (~RemoteSucceeds /\ StaticFails)

\* the remote request answered with rows none of which is usable, and the load
\* delivered the static catalog
C23_Witness ==
  /\ loadOut.stage = "done"
  /\ loadIn.cfg /\ loadIn.remote.kind = "rows" /\ loadIn.remote.rows # <<>>
  /\ loadOut.source = "static"
  /\ loadOut.products # <<>>

\* the rows of the source the settled load delivered
DeliveredFrom == IF loadOut.source = "remote" THEN loadIn.remote.rows ELSE loadIn.static.rows

\* C24: a fulfilled load delivers every row of its source (none is dropped), no two
\* entries with one id and no entry whose productUrl is not a valid item URL of the
\* host site.
C24_LoadFailsClosed ==
  (loadOut.stage = "done" /\ loadOut.state = "fulfilled") =>
    /\ Len(loadOut.products) = Len(DeliveredFrom)
    /\ \A i, j \in DOMAIN loadOut.products :
         i # j => loadOut.products[i].id # loadOut.products[j].id
    /\ \A i \in DOMAIN loadOut.products : isValidAmazonProductUrl(loadOut.products[i].productUrl)

\* the static source alone: a fulfilled load from businesses.json has every row, no
\* repeated id and only valid item URLs
C24_StaticFailsClosed ==
  (loadOut.stage = "done" /\ loadOut.state = "fulfilled" /\ loadOut.source = "static") =>
    /\ Len(loadOut.products) = Len(loadIn.static.rows)
    /\ \A i, j \in DOMAIN loadOut.products :
         i # j => loadOut.products[i].id # loadOut.products[j].id
    /\ \A i \in DOMAIN loadOut.products : isValidAmazonProductUrl(loadOut.products[i].productUrl)

(***************************************************************************)
(* Properties of the flashing badge, checked under SpecBadge.              *)
(***************************************************************************)
\* the running flash intervals of a tab
FlashIntervalsOf(tabId) == {x \in badge.timers : x.tabId = tabId}

\* a handler that ends in stopFlashing ran last, for tabId
StoppedFor(tabId) ==
  /\ badge.handled.tabId = tabId
  /\ badge.handled.type \in {"FAIRFINDZ_STOP_FLASHING", "FAIRFINDZ_CLEAR_BADGE", "onRemoved"}

\* C29: every tab has at most one running flash interval and it is the one recorded
\* in flashIntervalsByTabId; after STOP_FLASHING, CLEAR_BADGE or the removal of a
\* tab the tab has no interval, no entry and its badge text was set to empty; and
\* START_FLASHING for a tab that flashes starts no interval.
C29_OneRecordedFlashInterval ==
  /\ [](\A tabId \in Tabs :
          /\ Cardinality(FlashIntervalsOf(tabId)) <= 1
          /\ \A x \in FlashIntervalsOf(tabId) : x.id = badge.flashIntervalsByTabId[tabId]
          /\ badge.flashIntervalsByTabId[tabId] # 0 => FlashIntervalsOf(tabId) # {}
          /\ StoppedFor(tabId) =>
               /\ FlashIntervalsOf(tabId) = {}
               /\ badge.flashIntervalsByTabId[tabId] = 0
               /\ badge.asked[tabId] = ""
               /\ badge.open[tabId] => badge.text[tabId] = "")
  /\ [][\A tabId \in Tabs :
          (/\ badge'.handled = Handled("FAIRFINDZ_START_FLASHING", tabId)
           /\ badge.flashIntervalsByTabId[tabId] # 0)
          => (badge'.timers = badge.timers
              /\ badge'.flashIntervalsByTabId = badge.flashIntervalsByTabId)]_vars

\* START_FLASHING arrived for a tab that flashes while the other tab flashes too
C29_Witness ==
  /\ badge.handled.type = "FAIRFINDZ_START_FLASHING"
  /\ \A tabId \in Tabs : Cardinality(FlashIntervalsOf(tabId)) = 1
  /\ \E x \in badge.timers : x.tabId = badge.handled.tabId /\ x.on

\* a flashing tab was removed
C29_WitnessRemoved ==
  /\ badge.handled.type = "onRemoved"
  /\ badge.asked[badge.handled.tabId] = ""
  /\ \E tabId \in Tabs : tabId # badge.handled.tabId /\ FlashIntervalsOf(tabId) # {}

\* C30: once a badge call for a closed tab was refused, the handling of the refusals
\* comes to an end: no refused call of the tab stays to be handled.
C30_BadgeHandlingTerminates ==
  \A tabId \in Tabs :
    (~badge.open[tabId] /\ badge.rejections[tabId] > 0) ~> (badge.rejections[tabId] = 0)

\* the catch callback of a refused call leaves one refused call fewer to handle
C30_CatchMakesNoRefusedCall ==
  [][\A tabId \in Tabs :
       badge'.handled = Handled("catch", tabId)
       => badge'.rejections[tabId] < badge.rejections[tabId]]_vars

\* where the API returns no promises nothing is left to handle, whatever is refused
C30_NoPromiseNoHandling ==
  ~badge.promiseApi => \A tabId \in Tabs : badge.rejections[tabId] = 0

====
